---- MODULE Spec2Model ----
(***************************************************************************)
(* A model of the LAIRA document pipeline (pkheisig/laira2):               *)
(*   DocumentProcessor.process_documents / process_document and the stage  *)
(*   helpers they call (document_to_text, text_to_chunks,                  *)
(*   chunks_to_embeddings, store_embeddings), the progress object they     *)
(*   share, the registered progress callback, and the vector store's       *)
(*   store_embeddings.                                                     *)
(*                                                                         *)
(* Each thread of the program is a process with a program counter.  One    *)
(* step of a process is one lock-protected progress update (with the       *)
(* callback it invokes), one write of a shared last_error field, or one    *)
(* call of a pipeline component.                                           *)
(*                                                                         *)
(* Strings are modelled by what identifies them:                           *)
(*   - an error message is a tuple of strings (its fixed text and the      *)
(*     values interpolated into it); None is the empty tuple;              *)
(*   - a uuid4() value is a tuple <<run, k>> that no other call returns;   *)
(*   - a chunk id "<doc>_chunk_<i>" is doc \o <<-1, i>> and a chunk id     *)
(*     "<doc>_page_<p>_chunk_<i>" is doc \o <<p, i>>.                      *)
(***************************************************************************)
EXTENDS Integers, Sequences, FiniteSets, TLC

\* ------------------------------------------------------------------ bounds

\* Largest batch handed to process_documents.
MaxDocs == 2

\* Longest list of page units handed to text_to_chunks.
MaxUnits == 3

\* Most chunks the chunker cuts one text (a string, a page unit) into.
MaxUnitChunks == 2

\* Most chunks handed to chunks_to_embeddings with metadata of every type.
MaxMetaChunks == 1

\* ------------------------------------------------------------- the inputs

\* The files of the project's sources/ folder that a batch may name.
Files == {"missing.txt", "empty.txt", "notes.txt", "paper.pdf"}

\* TextExtractor.extract_text: None for a file it cannot read, a string for
\* TXT/DOCX, a list of page Documents for a PDF.
ExtractKind(path) ==
    CASE path = "missing.txt" -> "none"
      [] path = "paper.pdf"   -> "list"
      [] OTHER                -> "str"

\* The page units extract_from_pdf returns for paper.pdf: the text unit of
\* page 1 and the unit of the one figure on that page.
PdfUnits ==
    << [source |-> "paper.pdf", page |-> 1, chunk_type |-> "text"],
       [source |-> "paper.pdf", page |-> 1, chunk_type |-> "figure"] >>

\* The number of chunks TextChunker.chunk_text returns for the text of a
\* file: none for an empty text, one per paragraph otherwise.
ChunkCount(path) ==
    CASE path = "empty.txt" -> 0
      [] path = "notes.txt" -> 2
      [] OTHER              -> 0

Runs == 1..MaxDocs

NoError == << >>

Uuid4(run, k) == <<run, k>>

\* ------------------------------------------------------------ the stages

Stages == {"initialized", "extracting_text", "chunking_text",
           "generating_embeddings", "storing_embeddings", "completed", "failed"}

NoStage == "no_stage"

\* ------------------------------------------------------------- the state

VARIABLES
    progress_callback,  \* DocumentProcessor.progress_callback is set
    progress,           \* DocumentProcessor.progress
    last_error,         \* DocumentProcessor.last_error
    extractor_error,    \* TextExtractor.last_error
    chunker_error,      \* TextChunker.last_error
    collection,         \* the records of the vector store's collection
    document_paths,     \* process_documents' argument
    concurrent,         \* process_documents' argument
    mpc,                \* position of the thread running process_documents
    aggregated,         \* process_documents' aggregated_result (or unbound)
    collected,          \* futures as_completed has yielded
    future,             \* the future whose result the loop is handling
    returned,           \* what process_documents returned
    pc,                 \* position of each process_document run
    content,            \* extracted_content of each run
    chunks,             \* the chunk metadata of each run
    embedded,           \* chunks_with_embeddings of each run
    result,             \* the result dict of each run
    published,          \* the last stage each run wrote to progress.stage
    called,             \* the components each run has invoked
    failedStage,        \* the stage helper that returned None in each run
    t2c_input,          \* the argument of a direct text_to_chunks call
    t2c_output,         \* what that call returned
    sanitize_call,      \* a direct chunks_to_embeddings call: chunks, records
    embedder,           \* a TextEmbedder: its cache and its last call
    store_call,         \* a direct VectorStore.store_embeddings call
    chat_call,          \* a ChatEngine.ask or format_context call
    chunker_call,       \* a TextChunker.chunk_by_size / chunk_with_overlap call
    progress_threads,   \* threads writing DocumentProcessor.progress, and its lock
    vector_store,       \* a VectorStore: its collections and its active handle
    embedding_tasks     \* app.embedding_tasks and the threads that work on them

vars == << progress_callback, progress, last_error, extractor_error,
           chunker_error, collection, document_paths, concurrent, mpc,
           aggregated, collected, future, returned, pc, content, chunks, embedded,
           result, published, called, failedStage, t2c_input, t2c_output,
           sanitize_call, embedder, store_call, chat_call, chunker_call,
           progress_threads, vector_store, embedding_tasks >>

shared == << last_error, extractor_error, chunker_error, collection >>
batch == << document_paths, concurrent, progress_callback >>
main == << mpc, aggregated, collected, future, returned >>
locals == << content, chunks, embedded, result, called, failedStage >>
t2c == << t2c_input, t2c_output >>
unit == << sanitize_call, embedder, store_call, chat_call, chunker_call >>
service == << progress_threads, vector_store, embedding_tasks >>

\* ------------------------------------------------------------- progress

\* ProcessingProgress as the constructor of DocumentProcessor builds it.
NewProgress(total) ==
    [stage |-> "initialized", total_steps |-> total, current_step |-> 0,
     success_count |-> 0, error_count |-> 0, errors |-> 0]

Inc(flag) == IF flag THEN 1 ELSE 0

\* The body of _update_progress up to the callback.
UpdateProgress(p, stage, incStep, incSuccess, incError, errorInfo) ==
    [p EXCEPT !.stage = IF stage = NoStage THEN @ ELSE stage,
              !.current_step = @ + Inc(incStep),
              !.success_count = @ + Inc(incSuccess),
              !.error_count = @ + Inc(incError),
              !.errors = @ + Inc(errorInfo)]

\* The callback, when one is registered, returns or raises.
CallbackRaises == IF progress_callback THEN {FALSE, TRUE} ELSE {FALSE}

PIPELINE_STEPS == 4

\* ------------------------------------------------------- the initial state

NoResult ==
    [success |-> FALSE, error |-> NoError, document_id |-> << >>, stored_count |-> 0]

NotReturned ==
    [kind |-> "none", total_documents |-> 0, processed_documents |-> 0,
     successful_documents |-> 0, failed_documents |-> 0, document_results |-> << >>]

Unbound ==
    [bound |-> FALSE, processed_documents |-> 0, successful_documents |-> 0,
     failed_documents |-> 0, document_results |-> << >>]

NoCall == [kind |-> "not_called"]

\* DocumentProcessor.__init__ and the fresh components it builds.
PipelineInit ==
    /\ progress_callback = FALSE
    /\ progress = NewProgress(0)
    /\ last_error = NoError
    /\ extractor_error = NoError
    /\ chunker_error = NoError
    /\ collection = {}
    /\ document_paths = << >>
    /\ concurrent = FALSE
    /\ mpc = "idle"
    /\ aggregated = Unbound
    /\ collected = {}
    /\ future = 0
    /\ returned = NotReturned
    /\ pc = [i \in Runs |-> "idle"]
    /\ content = [i \in Runs |-> "none"]
    /\ chunks = [i \in Runs |-> << >>]
    /\ embedded = [i \in Runs |-> << >>]
    /\ result = [i \in Runs |-> NoResult]
    /\ published = [i \in Runs |-> NoStage]
    /\ called = [i \in Runs |-> {}]
    /\ failedStage = [i \in Runs |-> "none"]

\* No component operation is called on its own.
UnitIdle ==
    /\ sanitize_call = NoCall
    /\ embedder = NoCall
    /\ store_call = NoCall
    /\ chat_call = NoCall
    /\ chunker_call = NoCall

\* No thread group, store or task table is exercised on its own.
ServiceIdle ==
    /\ progress_threads = NoCall
    /\ vector_store = NoCall
    /\ embedding_tasks = NoCall

Init ==
    /\ PipelineInit
    /\ ServiceIdle
    /\ t2c_input = NoCall
    /\ t2c_output = NoCall
    /\ UnitIdle

\* ------------------------------------------------- the batch (main thread)

set_progress_callback ==
    /\ mpc = "idle"
    /\ ~progress_callback
    /\ progress_callback' = TRUE
    /\ UNCHANGED << service, t2c, unit, progress, shared, document_paths, concurrent, main, pc,
                    locals, published >>

N == Len(document_paths)

\* The files whose runs end in the extraction or the chunking stage.
ShortFiles == {"missing.txt", "empty.txt"}

\* The batches explored: every batch of at most MaxDocs files, sequentially
\* and concurrently; with a callback registered, a concurrent batch is one of
\* short files.
Batches(n, conc) ==
    IF conc /\ n > 1 /\ progress_callback
    THEN [1..n -> ShortFiles]
    ELSE [1..n -> Files]

\* Which runs process_documents starts at once: all of them through the
\* thread pool, or the first one in the sequential loop.
Dispatched(paths, conc) ==
    IF conc /\ Len(paths) > 1 THEN 1..Len(paths) ELSE {1}

\* process_documents up to the dispatch of the documents.
process_documents ==
    /\ mpc = "idle"
    /\ \E n \in 0..MaxDocs, conc \in BOOLEAN :
       \E paths \in Batches(n, conc) :
         /\ document_paths' = paths
         /\ concurrent' = conc
         /\ IF n = 0
            THEN /\ returned' = [NotReturned EXCEPT !.kind = "empty"]
                 /\ mpc' = "returned"
                 /\ UNCHANGED << progress, aggregated, pc >>
            ELSE \E raises \in CallbackRaises :
                 /\ progress' = NewProgress(n)
                 /\ aggregated' = [Unbound EXCEPT !.bound = ~raises]
                 /\ mpc' = IF raises THEN "pds_except"
                           ELSE IF conc /\ n > 1 THEN "pds_collect" ELSE "pds_seq"
                 /\ pc' = [i \in Runs |->
                             IF ~raises /\ i \in Dispatched(paths, conc)
                             THEN "pd_init" ELSE pc[i]]
                 /\ UNCHANGED returned
    /\ UNCHANGED << service, t2c, unit, progress_callback, shared, collected, future, locals, published >>

\* The entry process_documents appends for a run that returned its result.
DocResult(i) ==
    [document_path |-> document_paths[i], run |-> i,
     success |-> result[i].success, error |-> result[i].error]

\* The entry process_documents appends when future.result() raised.
ConcurrencyError(i) ==
    [document_path |-> document_paths[i], run |-> i,
     success |-> FALSE, error |-> <<"Concurrency error">>]

\* Lines 401-405 / 445-449 and 409 / 452: append and count one result.
Counted(agg, entry) ==
    [agg EXCEPT !.document_results = Append(@, entry),
                !.processed_documents = @ + 1,
                !.successful_documents = @ + Inc(entry.success),
                !.failed_documents = @ + Inc(~entry.success)]

\* Lines 424-430: the handler of the as_completed loop.
CountedError(agg, entry) ==
    [agg EXCEPT !.document_results = Append(@, entry),
                !.processed_documents = @ + 1,
                !.failed_documents = @ + 1]

\* The sequential loop handles the result of the run it just called.
pds_seq_result ==
    /\ mpc = "pds_seq"
    /\ LET i == Len(aggregated.document_results) + 1 IN
       /\ i \in 1..N
       /\ pc[i] = "returned"
       /\ aggregated' = Counted(aggregated, DocResult(i))
       /\ \E raises \in CallbackRaises :
          /\ progress' = UpdateProgress(progress, NoStage, TRUE, result[i].success,
                                        ~result[i].success, ~result[i].success)
          /\ mpc' = IF raises THEN "pds_except"
                    ELSE IF i < N THEN "pds_seq" ELSE "pds_finalize"
          /\ pc' = IF ~raises /\ i < N THEN [pc EXCEPT ![i + 1] = "pd_init"] ELSE pc
    /\ UNCHANGED << service, t2c, unit, batch, shared, collected, future, returned, locals, published >>

\* process_document raised into the sequential loop.
pds_seq_raised ==
    /\ mpc = "pds_seq"
    /\ \E i \in 1..N : pc[i] = "raised"
    /\ mpc' = "pds_except"
    /\ UNCHANGED << service, t2c, unit, batch, progress, shared, aggregated, collected, future,
                    returned, pc, locals, published >>

AfterFuture(done) == IF done = 1..N THEN "pds_finalize" ELSE "pds_collect"

\* as_completed yields a finished future whose result() returns.
pds_conc_result ==
    /\ mpc = "pds_collect"
    /\ \E i \in (1..N) \ collected :
       /\ pc[i] = "returned"
       /\ aggregated' = Counted(aggregated, DocResult(i))
       /\ \E raises \in CallbackRaises :
          /\ progress' = UpdateProgress(progress, NoStage, TRUE, result[i].success,
                                        ~result[i].success, ~result[i].success)
          /\ IF raises
             THEN /\ mpc' = "pds_conc_except"
                  /\ future' = i
                  /\ UNCHANGED collected
             ELSE /\ mpc' = AfterFuture(collected \cup {i})
                  /\ collected' = collected \cup {i}
                  /\ UNCHANGED future
    /\ UNCHANGED << service, t2c, unit, batch, shared, returned, pc, locals, published >>

\* The handler of the as_completed loop, for future i.
HandleFutureError(i) ==
    /\ aggregated' = CountedError(aggregated, ConcurrencyError(i))
    /\ \E raises \in CallbackRaises :
       /\ progress' = UpdateProgress(progress, NoStage, TRUE, FALSE, TRUE, TRUE)
       /\ IF raises
          THEN /\ mpc' = "pds_shutdown"
               /\ UNCHANGED collected
          ELSE /\ mpc' = AfterFuture(collected \cup {i})
               /\ collected' = collected \cup {i}
    /\ future' = 0
    /\ UNCHANGED << service, t2c, unit, batch, shared, returned, pc, locals, published >>

\* as_completed yields a finished future whose result() raises.
pds_conc_raised ==
    /\ mpc = "pds_collect"
    /\ \E i \in (1..N) \ collected :
       /\ pc[i] = "raised"
       /\ HandleFutureError(i)

\* The loop body raised (the callback, in _update_progress).
pds_conc_except ==
    /\ mpc = "pds_conc_except"
    /\ HandleFutureError(future)

\* An exception leaves the `with ThreadPoolExecutor` block, which waits for
\* every submitted run.
pds_shutdown ==
    /\ mpc = "pds_shutdown"
    /\ \A i \in 1..N : pc[i] \in {"returned", "raised"}
    /\ mpc' = "pds_except"
    /\ UNCHANGED << service, t2c, unit, batch, progress, shared, aggregated, collected, future,
                    returned, pc, locals, published >>

FinalStage(agg) == IF agg.failed_documents = 0 THEN "completed" ELSE "failed"

\* Lines 463-474.
pds_finalize ==
    /\ mpc = "pds_finalize"
    /\ \E raises \in CallbackRaises :
       /\ progress' = UpdateProgress(progress, FinalStage(aggregated),
                                     FALSE, FALSE, FALSE, FALSE)
       /\ IF raises
          THEN /\ mpc' = "pds_except"
               /\ UNCHANGED returned
          ELSE /\ mpc' = "returned"
               /\ returned' =
                    [kind |-> "aggregated", total_documents |-> N,
                     processed_documents |-> aggregated.processed_documents,
                     successful_documents |-> aggregated.successful_documents,
                     failed_documents |-> aggregated.failed_documents,
                     document_results |-> aggregated.document_results]
    /\ UNCHANGED << service, t2c, unit, batch, shared, aggregated, collected, future, pc, locals,
                    published >>

\* Lines 476-489: the handler of process_documents.  It raises when the
\* callback raises again, and when aggregated_result was never bound.
pds_except ==
    /\ mpc = "pds_except"
    /\ last_error' = <<"exception">>
    /\ \E raises \in CallbackRaises :
       LET p == UpdateProgress(progress, "failed", FALSE, FALSE, FALSE, TRUE) IN
       /\ progress' = p
       /\ IF raises \/ ~aggregated.bound
          THEN /\ mpc' = "raised"
               /\ UNCHANGED returned
          ELSE /\ mpc' = "returned"
               /\ returned' =
                    [kind |-> "error", total_documents |-> N,
                     processed_documents |-> p.current_step,
                     successful_documents |-> p.success_count,
                     failed_documents |-> p.error_count + (N - p.current_step),
                     document_results |-> aggregated.document_results]
    /\ UNCHANGED << service, t2c, unit, batch, extractor_error, chunker_error, collection, aggregated,
                    collected, future, pc, locals, published >>

\* ------------------------------------------- one process_document run (i)

\* _update_progress called by run i: the update, then the callback; the run
\* goes on at okPc when the callback returns and at raisePc when it raises.
Update(i, stage, incStep, incSuccess, incError, errorInfo, okPc, raisePc) ==
    \E raises \in CallbackRaises :
       /\ progress' = UpdateProgress(progress, stage, incStep, incSuccess,
                                     incError, errorInfo)
       /\ published' = IF stage = NoStage THEN published
                       ELSE [published EXCEPT ![i] = stage]
       /\ pc' = [pc EXCEPT ![i] = IF raises THEN raisePc ELSE okPc]

\* `self.last_error or "<default>"`.
ErrorOr(default) == IF last_error # NoError THEN last_error ELSE default

\* Lines 162-199: the result dict, the fresh document id, the reset of the
\* progress object under the lock.
pd_init(i) ==
    /\ pc[i] = "pd_init"
    /\ result' = [result EXCEPT ![i] = [NoResult EXCEPT !.document_id = Uuid4(i, 0)]]
    /\ \E raises \in CallbackRaises :
       /\ progress' = [NewProgress(PIPELINE_STEPS) EXCEPT !.stage = "initialized"]
       /\ published' = [published EXCEPT ![i] = "initialized"]
       /\ pc' = [pc EXCEPT ![i] = IF raises THEN "pd_except" ELSE "pd_stage1"]
    /\ UNCHANGED << service, t2c, unit, batch, shared, main, content, chunks, embedded, called,
                    failedStage >>

\* Line 208.
pd_stage1(i) ==
    /\ pc[i] = "pd_stage1"
    /\ Update(i, "extracting_text", FALSE, FALSE, FALSE, FALSE, "d2t_begin", "pd_except")
    /\ UNCHANGED << service, t2c, unit, batch, shared, main, locals >>

\* document_to_text, lines 508-511.
d2t_begin(i) ==
    /\ pc[i] = "d2t_begin"
    /\ Update(i, "extracting_text", TRUE, FALSE, FALSE, FALSE, "extract_reset", "d2t_except")
    /\ UNCHANGED << service, t2c, unit, batch, shared, main, locals >>

\* TextExtractor.extract_text, line 88: the reset of its last_error.
extract_reset(i) ==
    /\ pc[i] = "extract_reset"
    /\ extractor_error' = NoError
    /\ called' = [called EXCEPT ![i] = @ \cup {"extractor"}]
    /\ pc' = [pc EXCEPT ![i] = "extract_run"]
    /\ UNCHANGED << service, t2c, unit, batch, progress, last_error, chunker_error, collection, main,
                    content, chunks, embedded, result, failedStage, published >>

\* Where document_to_text goes on after extract_text returned.
AfterExtract(kind) == IF kind = "none" THEN "d2t_none" ELSE "d2t_ok"

\* TextExtractor.extract_text, lines 90-120: the extraction itself.
extract_run(i) ==
    /\ pc[i] = "extract_run"
    /\ LET kind == ExtractKind(document_paths[i]) IN
       /\ content' = [content EXCEPT ![i] = kind]
       /\ extractor_error' = IF kind = "none"
                             THEN <<"File not found", document_paths[i]>>
                             ELSE extractor_error
       /\ pc' = [pc EXCEPT ![i] = AfterExtract(kind)]
    /\ UNCHANGED << service, t2c, unit, batch, progress, last_error, chunker_error, collection, main,
                    chunks, embedded, result, called, failedStage, published >>

\* document_to_text, lines 519-522.
d2t_none(i) ==
    /\ pc[i] = "d2t_none"
    /\ last_error' = <<"Failed to extract content from", document_paths[i]>>
                       \o extractor_error
    /\ pc' = [pc EXCEPT ![i] = "d2t_none_update"]
    /\ UNCHANGED << service, t2c, unit, batch, progress, extractor_error, chunker_error, collection,
                    main, locals, published >>

\* document_to_text, lines 523-531.
d2t_none_update(i) ==
    /\ pc[i] = "d2t_none_update"
    /\ Update(i, NoStage, FALSE, FALSE, TRUE, TRUE, "pd_stage1_none", "d2t_except")
    /\ UNCHANGED << service, t2c, unit, batch, shared, main, locals >>

\* document_to_text, lines 535-549.
d2t_ok(i) ==
    /\ pc[i] = "d2t_ok"
    /\ Update(i, NoStage, FALSE, TRUE, FALSE, FALSE, "pd_stage1_done", "d2t_except")
    /\ UNCHANGED << service, t2c, unit, batch, shared, main, locals >>

\* document_to_text, lines 551-553.
d2t_except(i) ==
    /\ pc[i] = "d2t_except"
    /\ last_error' = <<"exception">>
    /\ content' = [content EXCEPT ![i] = "none"]
    /\ pc' = [pc EXCEPT ![i] = "d2t_except_update"]
    /\ UNCHANGED << service, t2c, unit, batch, progress, extractor_error, chunker_error, collection,
                    main, chunks, embedded, result, called, failedStage, published >>

\* document_to_text, lines 554-562.
d2t_except_update(i) ==
    /\ pc[i] = "d2t_except_update"
    /\ Update(i, NoStage, FALSE, FALSE, TRUE, TRUE, "pd_stage1_none", "pd_except")
    /\ UNCHANGED << service, t2c, unit, batch, shared, main, locals >>

\* Where process_document would go on if the branch of a failed stage had no
\* `return result`.
NextStage(stage) ==
    CASE stage = "extract" -> "pd_stage2"
      [] stage = "chunk"   -> "pd_stage3"
      [] stage = "embed"   -> "pd_stage4"
      [] OTHER             -> "pd_stage4_done"

\* The branch of a failed stage without its `return result`: the run goes on
\* with the next stage.
StageFailedContinues(i, stage, default, countError) ==
    /\ result' = [result EXCEPT ![i].error = ErrorOr(default)]
    /\ failedStage' = [failedStage EXCEPT ![i] = stage]
    /\ Update(i, "failed", FALSE, FALSE, countError, countError,
              NextStage(stage), "pd_except")
    /\ UNCHANGED << service, t2c, unit, batch, shared, main, content, chunks, embedded, called >>

\* A stage helper returned None: the error goes into the result, the stage
\* becomes FAILED and the run returns (lines 211-217, 241-247, 263-269,
\* 288-296).
StageFailed(i, stage, default, countError) ==
    /\ result' = [result EXCEPT ![i].error = ErrorOr(default)]
    /\ failedStage' = [failedStage EXCEPT ![i] = stage]
    /\ Update(i, "failed", FALSE, FALSE, countError, countError, "returned", "pd_except")
    /\ UNCHANGED << service, t2c, unit, batch, shared, main, content, chunks, embedded, called >>

\* Lines 211-217.
pd_stage1_none(i) ==
    /\ pc[i] = "pd_stage1_none"
    /\ StageFailed(i, "extract", <<"Failed to extract content">>, TRUE)

\* Line 219.
pd_stage1_done(i) ==
    /\ pc[i] = "pd_stage1_done"
    /\ Update(i, NoStage, TRUE, FALSE, FALSE, FALSE, "pd_stage2", "pd_except")
    /\ UNCHANGED << service, t2c, unit, batch, shared, main, locals >>

\* Lines 235-240: a list of page Documents becomes the chunks as it is, any
\* other content goes through text_to_chunks.
AfterChunkingStage(kind) == IF kind = "list" THEN "pd_stage2_done" ELSE "t2c_begin"

\* The chunks of lines 235-237: the page Documents' own metadata.
PageChunks == PdfUnits

\* Lines 231-240.
pd_stage2(i) ==
    /\ pc[i] = "pd_stage2"
    /\ chunks' = [chunks EXCEPT ![i] = IF content[i] = "list" THEN PageChunks ELSE @]
    /\ Update(i, "chunking_text", FALSE, FALSE, FALSE, FALSE,
              AfterChunkingStage(content[i]), "pd_except")
    /\ UNCHANGED << service, t2c, unit, batch, shared, main, content, embedded, result, called,
                    failedStage >>

\* text_to_chunks, lines 581-584.
t2c_begin(i) ==
    /\ pc[i] = "t2c_begin"
    /\ Update(i, "chunking_text", TRUE, FALSE, FALSE, FALSE, "chunk_text", "t2c_except")
    /\ UNCHANGED << service, t2c, unit, batch, shared, main, locals >>

\* Lines 202-205: the metadata process_document hands to the stage helpers.
DocMetadata(i) ==
    [document_id |-> result[i].document_id, file_path |-> document_paths[i]]

\* `metadata.get("document_id", <fresh uuid>)` (lines 597 and 625).
DocumentId(metadata, fresh) ==
    IF "document_id" \in DOMAIN metadata THEN metadata.document_id ELSE fresh

\* The chunk ids text_to_chunks gives the chunks of a string (lines 607-610).
StringChunkId(doc_id, k) == doc_id \o <<-1, k>>

\* The chunks of a string cut into n chunks: the chunker's metadata (a copy of
\* the document metadata, updated with the chunk's index) updated with the
\* chunk id (lines 597-611).
StringChunks(document_metadata, n) ==
    LET doc_id == DocumentId(document_metadata, Uuid4(0, 0)) IN
    [k \in 1..n |->
        [chunk_index |-> k - 1, chunk_id |-> StringChunkId(doc_id, k - 1)]
            @@ document_metadata]

\* The chunk ids text_to_chunks gives the chunks of a page unit (lines 639-640).
PageChunkId(doc_id, page_num, k) == doc_id \o <<page_num, k>>

\* The chunks of a list of page units, each cut into unit.nchunks chunks
\* (lines 613-648): a unit without chunks is skipped; the chunker restarts
\* its index with every unit.
RECURSIVE PageListChunks(_, _)
PageListChunks(units, document_metadata) ==
    IF units = << >> THEN << >>
    ELSE LET page_doc == Head(units)
             page_metadata == page_doc.metadata
             doc_id == DocumentId(page_metadata,
                                  DocumentId(document_metadata, Uuid4(0, 0)))
             page_chunks ==
                 [k \in 1..page_doc.nchunks |->
                     [chunk_id |-> PageChunkId(doc_id, page_metadata.page, k - 1),
                      chunk_index |-> k - 1, document_id |-> doc_id]
                         @@ page_metadata]
         IN page_chunks \o PageListChunks(Tail(units), document_metadata)

\* text_to_chunks, line 600: `if not chunks`.
AfterChunkText(n) == IF n = 0 THEN "t2c_empty" ELSE "t2c_ok"

\* text_to_chunks, lines 597-611, with TextChunker.chunk_text (lines 122-139).
chunk_text(i) ==
    /\ pc[i] = "chunk_text"
    /\ chunker_error' = NoError
    /\ called' = [called EXCEPT ![i] = @ \cup {"chunker"}]
    /\ LET n == ChunkCount(document_paths[i]) IN
       /\ chunks' = [chunks EXCEPT ![i] = StringChunks(DocMetadata(i), n)]
       /\ pc' = [pc EXCEPT ![i] = AfterChunkText(n)]
    /\ UNCHANGED << service, t2c, unit, batch, progress, last_error, extractor_error, collection, main,
                    content, embedded, result, failedStage, published >>

\* text_to_chunks, lines 601-603.
t2c_empty(i) ==
    /\ pc[i] = "t2c_empty"
    /\ last_error' = <<"Failed to chunk text">> \o chunker_error
    /\ pc' = [pc EXCEPT ![i] = "t2c_empty_update"]
    /\ UNCHANGED << service, t2c, unit, batch, progress, extractor_error, chunker_error, collection,
                    main, locals, published >>

\* text_to_chunks, lines 604-605.
t2c_empty_update(i) ==
    /\ pc[i] = "t2c_empty_update"
    /\ Update(i, NoStage, FALSE, FALSE, TRUE, TRUE, "pd_stage2_none", "t2c_except")
    /\ UNCHANGED << service, t2c, unit, batch, shared, main, locals >>

\* text_to_chunks, lines 660-662.
t2c_ok(i) ==
    /\ pc[i] = "t2c_ok"
    /\ Update(i, NoStage, FALSE, TRUE, FALSE, FALSE, "pd_stage2_done", "t2c_except")
    /\ UNCHANGED << service, t2c, unit, batch, shared, main, locals >>

\* text_to_chunks, lines 664-666.
t2c_except(i) ==
    /\ pc[i] = "t2c_except"
    /\ last_error' = <<"exception">>
    /\ pc' = [pc EXCEPT ![i] = "t2c_except_update"]
    /\ UNCHANGED << service, t2c, unit, batch, progress, extractor_error, chunker_error, collection,
                    main, locals, published >>

\* text_to_chunks, lines 667-674.
t2c_except_update(i) ==
    /\ pc[i] = "t2c_except_update"
    /\ Update(i, NoStage, FALSE, FALSE, TRUE, TRUE, "pd_stage2_none", "pd_except")
    /\ UNCHANGED << service, t2c, unit, batch, shared, main, locals >>

\* Lines 241-247.
pd_stage2_none(i) ==
    /\ pc[i] = "pd_stage2_none"
    /\ StageFailed(i, "chunk", <<"Failed to chunk content">>, TRUE)

\* Lines 252 and 274: nothing to embed or to store.
AfterCount(n, emptyPc, nextPc) == IF n = 0 THEN emptyPc ELSE nextPc

\* Lines 248-252.
pd_stage2_done(i) ==
    /\ pc[i] = "pd_stage2_done"
    /\ Update(i, NoStage, TRUE, FALSE, FALSE, FALSE,
              AfterCount(Len(chunks[i]), "pd_empty", "pd_stage3"), "pd_except")
    /\ UNCHANGED << service, t2c, unit, batch, shared, main, locals >>

\* Lines 253-257 and 275-279: success without embedding or storing.
pd_empty(i) ==
    /\ pc[i] = "pd_empty"
    /\ result' = [result EXCEPT ![i].success = TRUE]
    /\ Update(i, "completed", FALSE, FALSE, FALSE, FALSE, "returned", "pd_except")
    /\ UNCHANGED << service, t2c, unit, batch, shared, main, content, chunks, embedded, called,
                    failedStage >>

\* Line 260.
pd_stage3(i) ==
    /\ pc[i] = "pd_stage3"
    /\ Update(i, "generating_embeddings", FALSE, FALSE, FALSE, FALSE,
              "c2e_begin", "pd_except")
    /\ UNCHANGED << service, t2c, unit, batch, shared, main, locals >>

\* chunks_to_embeddings, lines 699-702.
c2e_begin(i) ==
    /\ pc[i] = "c2e_begin"
    /\ Update(i, "generating_embeddings", TRUE, FALSE, FALSE, FALSE,
              "embed", "c2e_except")
    /\ UNCHANGED << service, t2c, unit, batch, shared, main, locals >>

\* The subsequence of s at the positions in keep, in order.
RECURSIVE Select(_, _)
Select(s, keep) ==
    IF s = << >> THEN << >>
    ELSE LET rest == Select(Tail(s), {k - 1 : k \in keep \ {1}}) IN
         IF 1 \in keep THEN <<Head(s)>> \o rest ELSE rest

\* chunks_to_embeddings, lines 710-723: one record per chunk that got an
\* embedding, holding the chunk's metadata.
EmbeddingResults(chunkList, withEmbedding) == Select(chunkList, withEmbedding)

\* chunks_to_embeddings, lines 705-725: the embedder gives each chunk a
\* vector or None, or raises.
embed(i) ==
    /\ pc[i] = "embed"
    /\ called' = [called EXCEPT ![i] = @ \cup {"embedder"}]
    /\ \/ /\ pc' = [pc EXCEPT ![i] = "c2e_except"]
          /\ UNCHANGED embedded
       \/ \E ok \in SUBSET (1..Len(chunks[i])) :
          /\ embedded' = [embedded EXCEPT ![i] = EmbeddingResults(chunks[i], ok)]
          /\ pc' = [pc EXCEPT ![i] = "c2e_ok"]
    /\ UNCHANGED << service, t2c, unit, batch, progress, shared, main, content, chunks, result,
                    failedStage, published >>

\* chunks_to_embeddings, lines 727-728.
c2e_ok(i) ==
    /\ pc[i] = "c2e_ok"
    /\ Update(i, NoStage, FALSE, TRUE, FALSE, FALSE, "pd_stage3_done", "c2e_except")
    /\ UNCHANGED << service, t2c, unit, batch, shared, main, locals >>

\* chunks_to_embeddings, lines 729-731.
c2e_except(i) ==
    /\ pc[i] = "c2e_except"
    /\ last_error' = <<"exception">>
    /\ pc' = [pc EXCEPT ![i] = "c2e_except_update"]
    /\ UNCHANGED << service, t2c, unit, batch, progress, extractor_error, chunker_error, collection,
                    main, locals, published >>

\* chunks_to_embeddings, lines 732-739.
c2e_except_update(i) ==
    /\ pc[i] = "c2e_except_update"
    /\ Update(i, NoStage, FALSE, FALSE, TRUE, TRUE, "pd_stage3_none", "pd_except")
    /\ UNCHANGED << service, t2c, unit, batch, shared, main, locals >>

\* Lines 263-269.
pd_stage3_none(i) ==
    /\ pc[i] = "pd_stage3_none"
    /\ StageFailed(i, "embed", <<"Failed to generate embeddings">>, TRUE)

\* Lines 270-274.
pd_stage3_done(i) ==
    /\ pc[i] = "pd_stage3_done"
    /\ Update(i, NoStage, TRUE, FALSE, FALSE, FALSE,
              AfterCount(Len(embedded[i]), "pd_empty", "pd_stage4"), "pd_except")
    /\ UNCHANGED << service, t2c, unit, batch, shared, main, locals >>

\* Line 282.
pd_stage4(i) ==
    /\ pc[i] = "pd_stage4"
    /\ Update(i, "storing_embeddings", FALSE, FALSE, FALSE, FALSE,
              "se_begin", "pd_except")
    /\ UNCHANGED << service, t2c, unit, batch, shared, main, locals >>

\* DocumentProcessor.store_embeddings, lines 756-759.
se_begin(i) ==
    /\ pc[i] = "se_begin"
    /\ Update(i, "storing_embeddings", TRUE, FALSE, FALSE, FALSE,
              "store", "se_except")
    /\ UNCHANGED << service, t2c, unit, batch, shared, main, locals >>

\* VectorStore.store_embeddings, line 343: the id of a record is the item's
\* "id" when it has one and a fresh uuid otherwise.
ItemId(item, fresh) == IF "id" \in DOMAIN item THEN item.id ELSE fresh

\* VectorStore.store_embeddings, lines 341-359: the records of a batch.  The
\* items chunks_to_embeddings builds hold text, embedding and metadata.
Records(i, items) ==
    { [id |-> ItemId([metadata |-> items[k]], Uuid4(i, k)), metadata |-> items[k]]
        : k \in 1..Len(items) }

\* VectorStore.DEFAULT_BATCH_SIZE, the records of one collection.add (100 in
\* the source).
DEFAULT_BATCH_SIZE == 1

\* The batches of the loop of lines 331-332.
NumBatches(items) == (Len(items) + DEFAULT_BATCH_SIZE - 1) \div DEFAULT_BATCH_SIZE

\* The records of the batches added before the batch with number failing.
WrittenBefore(i, items, failing) ==
    Records(i, SubSeq(items, 1, (failing - 1) * DEFAULT_BATCH_SIZE))

\* _add_embeddings_with_retry raises for one batch after its retries: the
\* handler of store_embeddings (lines 376-379) returns False and the batches
\* added before stay in the collection.
StoreFails(i) ==
    \E failing \in 1..NumBatches(embedded[i]) :
       /\ collection' = collection \cup WrittenBefore(i, embedded[i], failing)
       /\ pc' = [pc EXCEPT ![i] = "se_failed"]

\* VectorStore.store_embeddings (lines 313-379) called at line 767: every
\* batch is added, or one fails after its retries and the call returns
\* False.
store(i) ==
    /\ pc[i] = "store"
    /\ called' = [called EXCEPT ![i] = @ \cup {"vector_store"}]
    /\ \/ /\ collection' = collection \cup Records(i, embedded[i])
          /\ pc' = [pc EXCEPT ![i] = "se_ok"]
       \/ StoreFails(i)
    /\ UNCHANGED << service, t2c, unit, batch, progress, last_error, extractor_error, chunker_error,
                    main, content, chunks, embedded, result, failedStage, published >>

\* DocumentProcessor.store_embeddings, lines 769-772.
se_failed(i) ==
    /\ pc[i] = "se_failed"
    /\ last_error' = <<"Failed to store embeddings">>
    /\ pc' = [pc EXCEPT ![i] = "se_failed_update"]
    /\ UNCHANGED << service, t2c, unit, batch, progress, extractor_error, chunker_error, collection,
                    main, locals, published >>

\* DocumentProcessor.store_embeddings, lines 774-781.
se_failed_update(i) ==
    /\ pc[i] = "se_failed_update"
    /\ Update(i, NoStage, FALSE, FALSE, TRUE, TRUE, "pd_stage4_none", "se_except")
    /\ UNCHANGED << service, t2c, unit, batch, shared, main, locals >>

\* DocumentProcessor.store_embeddings, lines 783-791.
se_ok(i) ==
    /\ pc[i] = "se_ok"
    /\ Update(i, NoStage, FALSE, TRUE, FALSE, FALSE, "pd_stage4_done", "se_except")
    /\ UNCHANGED << service, t2c, unit, batch, shared, main, locals >>

\* DocumentProcessor.store_embeddings, lines 793-795.
se_except(i) ==
    /\ pc[i] = "se_except"
    /\ last_error' = <<"exception">>
    /\ pc' = [pc EXCEPT ![i] = "se_except_update"]
    /\ UNCHANGED << service, t2c, unit, batch, progress, extractor_error, chunker_error, collection,
                    main, locals, published >>

\* DocumentProcessor.store_embeddings, lines 797-805.
se_except_update(i) ==
    /\ pc[i] = "se_except_update"
    /\ Update(i, NoStage, FALSE, FALSE, TRUE, TRUE, "pd_stage4_none", "pd_except")
    /\ UNCHANGED << service, t2c, unit, batch, shared, main, locals >>

\* Lines 288-296.
pd_stage4_none(i) ==
    /\ pc[i] = "pd_stage4_none"
    /\ StageFailed(i, "store", <<"Failed to store embeddings (storage_result was None)">>,
                   FALSE)

\* Lines 298-309: COMPLETED is published, then the result is filled in.
pd_stage4_done(i) ==
    /\ pc[i] = "pd_stage4_done"
    /\ \E raises \in CallbackRaises :
       /\ progress' = UpdateProgress(progress, "completed", FALSE, FALSE, FALSE, FALSE)
       /\ published' = [published EXCEPT ![i] = "completed"]
       /\ pc' = [pc EXCEPT ![i] = IF raises THEN "pd_except" ELSE "returned"]
       /\ result' = IF raises THEN result
                    ELSE [result EXCEPT ![i].success = TRUE,
                                        ![i].stored_count = Len(embedded[i])]
    /\ UNCHANGED << service, t2c, unit, batch, shared, main, content, chunks, embedded, called,
                    failedStage >>

\* Lines 311-320: the handler of process_document.  The run raises when the
\* callback raises again.
pd_except(i) ==
    /\ pc[i] = "pd_except"
    /\ result' = [result EXCEPT ![i].error =
                     <<"Unexpected error during document processing">>]
    /\ Update(i, "failed", FALSE, FALSE, TRUE, TRUE, "returned", "raised")
    /\ UNCHANGED << service, t2c, unit, batch, shared, main, content, chunks, embedded, called,
                    failedStage >>

\* ------------------------------------------------------ the specification

Run(i) ==
    \/ pd_init(i) \/ pd_stage1(i) \/ d2t_begin(i) \/ extract_reset(i)
    \/ extract_run(i) \/ d2t_none(i) \/ d2t_none_update(i) \/ d2t_ok(i)
    \/ d2t_except(i) \/ d2t_except_update(i) \/ pd_stage1_none(i)
    \/ pd_stage1_done(i) \/ pd_stage2(i) \/ t2c_begin(i) \/ chunk_text(i)
    \/ t2c_empty(i) \/ t2c_empty_update(i) \/ t2c_ok(i) \/ t2c_except(i)
    \/ t2c_except_update(i) \/ pd_stage2_none(i) \/ pd_stage2_done(i)
    \/ pd_empty(i) \/ pd_stage3(i) \/ c2e_begin(i) \/ embed(i) \/ c2e_ok(i)
    \/ c2e_except(i) \/ c2e_except_update(i) \/ pd_stage3_none(i)
    \/ pd_stage3_done(i) \/ pd_stage4(i) \/ se_begin(i) \/ store(i)
    \/ se_failed(i) \/ se_failed_update(i) \/ se_ok(i) \/ se_except(i)
    \/ se_except_update(i) \/ pd_stage4_none(i) \/ pd_stage4_done(i)
    \/ pd_except(i)

Next ==
    \/ set_progress_callback
    \/ process_documents
    \/ pds_seq_result \/ pds_seq_raised
    \/ pds_conc_result \/ pds_conc_raised \/ pds_conc_except \/ pds_shutdown
    \/ pds_finalize \/ pds_except
    \/ \E i \in Runs : Run(i)

Spec == Init /\ [][Next]_vars

\* ------------------------------------------- text_to_chunks called directly

\* The page units extract_from_pdf can append after the units it has built
\* (text_extractor.py, lines 275-297): the text unit of the next page, or a
\* figure unit of the current page, numbered from 1 within the page.  Each
\* unit's text is given by the number of chunks the chunker cuts it into.
NextUnits(units) ==
    LET last == IF units = << >> THEN [page |-> 0, chunk_type |-> "none"]
                ELSE units[Len(units)].metadata
        text_meta == [page |-> last.page + 1, chunk_type |-> "text"]
        fig_meta == [page |-> last.page, chunk_type |-> "figure",
                     figure_index |-> IF last.chunk_type = "figure"
                                      THEN last.figure_index + 1 ELSE 1]
        metas == IF units = << >> THEN {text_meta} ELSE {text_meta, fig_meta}
    IN { [metadata |-> m, nchunks |-> n] : m \in metas, n \in 0..MaxUnitChunks }

RECURSIVE UnitLists(_)
UnitLists(len) ==
    IF len = 0 THEN { << >> }
    ELSE UNION { { Append(units, u) : u \in NextUnits(units) }
                   : units \in UnitLists(len - 1) }

\* The contents text_to_chunks is called with: a string, or the page units
\* of a PDF.
T2CInputs ==
    { [kind |-> "str", nchunks |-> n] : n \in 0..MaxUnitChunks }
      \cup { [kind |-> "list", units |-> units]
               : units \in UNION { UnitLists(len) : len \in 0..MaxUnits } }

\* DocumentProcessor.text_to_chunks (lines 564-674), called with a content
\* and the metadata of its document.
text_to_chunks ==
    /\ t2c_input \in T2CInputs
    /\ t2c_output = NoCall
    /\ LET document_metadata == [document_id |-> Uuid4(0, 0)]
           all_chunks == IF t2c_input.kind = "str"
                         THEN StringChunks(document_metadata, t2c_input.nchunks)
                         ELSE PageListChunks(t2c_input.units, document_metadata)
           failed == t2c_input.kind = "str" /\ all_chunks = << >>
       IN /\ t2c_output' = IF failed THEN [kind |-> "None"]
                           ELSE [kind |-> "chunks", chunks |-> all_chunks]
          /\ last_error' = IF failed THEN <<"Failed to chunk text">> ELSE last_error
          /\ progress' = UpdateProgress(
                             UpdateProgress(progress, "chunking_text",
                                            TRUE, FALSE, FALSE, FALSE),
                             NoStage, FALSE, ~failed, failed, failed)
    /\ chunker_error' = NoError
    /\ UNCHANGED << service, t2c_input, unit, batch, extractor_error, collection, main,
                    pc, locals, published >>

InitChunks ==
    /\ PipelineInit
    /\ ServiceIdle
    /\ t2c_input \in T2CInputs
    /\ t2c_output = NoCall
    /\ UnitIdle

NextChunks == text_to_chunks

SpecChunks == InitChunks /\ [][NextChunks]_vars

\* ------------------------------------------------------------- the claims

\* The place of a stage in INITIALIZED -> EXTRACTING -> CHUNKING -> EMBEDDING
\* -> STORING -> COMPLETED | FAILED.
Rank(stage) ==
    CASE stage = NoStage                 -> 0
      [] stage = "initialized"           -> 1
      [] stage = "extracting_text"       -> 2
      [] stage = "chunking_text"         -> 3
      [] stage = "generating_embeddings" -> 4
      [] stage = "storing_embeddings"    -> 5
      [] OTHER                           -> 6

\* C1: whenever a process_document run publishes a stage other than the one
\* it published last, the new stage lies further along INITIALIZED ->
\* EXTRACTING -> CHUNKING -> EMBEDDING -> STORING -> COMPLETED | FAILED; in
\* particular nothing follows COMPLETED or FAILED.
StagesMoveForward ==
    [][\A i \in Runs :
          published'[i] # published[i]
              => Rank(published[i]) < Rank(published'[i])]_vars

\* The components a run may have invoked when the given stage failed.
ComponentsUpTo(stage) ==
    CASE stage = "extract" -> {"extractor"}
      [] stage = "chunk"   -> {"extractor", "chunker"}
      [] stage = "embed"   -> {"extractor", "chunker", "embedder"}
      [] OTHER             -> {"extractor", "chunker", "embedder", "vector_store"}

\* C2: once a stage of a run has failed, the run's result has success = false
\* and a non-empty error, the stage the run published is FAILED, the run is
\* over (or in its exception handler), and it has invoked no component of a
\* later stage.
FailedStageStops ==
    \A i \in Runs :
        failedStage[i] # "none"
            => /\ result[i].success = FALSE
               /\ result[i].error # NoError
               /\ published[i] = "failed"
               /\ pc[i] \in {"returned", "pd_except", "raised"}
               /\ called[i] \subseteq ComponentsUpTo(failedStage[i])

\* C2: a run whose chunking stage failed has returned.
ChunkStageFailed ==
    \E i \in Runs : failedStage[i] = "chunk" /\ pc[i] = "returned"

\* The chunker of run i returned, with no chunk.
ZeroChunks(i) ==
    /\ "chunker" \in called[i]
    /\ chunks[i] = << >>

\* The embedder of run i returned, with no embedding.
ZeroEmbeddings(i) ==
    /\ "embedder" \in called[i]
    /\ failedStage[i] # "embed"
    /\ embedded[i] = << >>

\* C3: a run that returned after its content gave zero chunks, or its chunks
\* zero embeddings, published COMPLETED, reports success = true and no error,
\* and never called the vector store.
ZeroYieldCompletes ==
    \A i \in Runs :
        pc[i] = "returned" /\ (ZeroChunks(i) \/ ZeroEmbeddings(i))
            => /\ published[i] = "completed"
               /\ result[i].success = TRUE
               /\ result[i].error = NoError
               /\ "vector_store" \notin called[i]

\* The entries of the returned document_results that belong to run j.
EntriesOf(j) ==
    { k \in DOMAIN returned.document_results :
          returned.document_results[k].run = j }

\* C4: when a process_document run of the batch raised, process_documents
\* does not raise: it returns, and its document_results report every document
\* of the batch, the one that raised with success = false.
ExceptionsStayInBatch ==
    (mpc \in {"returned", "raised"} /\ \E i \in 1..N : pc[i] = "raised")
        => /\ mpc = "returned"
           /\ \A j \in 1..N :
                 /\ EntriesOf(j) # {}
                 /\ pc[j] = "raised"
                      => \A k \in EntriesOf(j) :
                            returned.document_results[k].success = FALSE

\* C5: what process_documents returns for a non-empty batch has
\* total_documents = len(document_paths) = processed_documents =
\* successful_documents + failed_documents, successful_documents counts the
\* results with success = true, and document_results holds exactly one result
\* per input path, carrying that path.
BatchCounts ==
    (mpc = "returned" /\ N > 0)
        => /\ returned.total_documents = N
           /\ returned.processed_documents = N
           /\ returned.successful_documents + returned.failed_documents = N
           /\ returned.successful_documents =
                 Cardinality({ k \in DOMAIN returned.document_results :
                                   returned.document_results[k].success })
           /\ Len(returned.document_results) = N
           /\ \A j \in 1..N :
                 /\ Cardinality(EntriesOf(j)) = 1
                 /\ \A k \in EntriesOf(j) :
                       returned.document_results[k].document_path = document_paths[j]

\* C6: what process_documents returns lists the results in input order:
\* document_results[k] is the result of document_paths[k].  It is stated
\* for the batches without a progress callback, where every run returns.
ResultsInInputOrder ==
    (mpc = "returned" /\ ~progress_callback)
        => \A k \in DOMAIN returned.document_results :
               returned.document_results[k].run = k

\* C7: from the start of a batch of N documents to its return the progress
\* object has total_steps = N and current_step = the number of documents
\* completed so far, which is N when the batch returns.
OneStepPerDocument ==
    (mpc # "idle" /\ N > 0)
        => /\ progress.total_steps = N
           /\ aggregated.bound
                => progress.current_step = Len(aggregated.document_results)
           /\ mpc = "returned" => progress.current_step = N

\* The chunk id in a chunk's metadata (None when it carries none).
ChunkIdOf(metadata) ==
    IF "chunk_id" \in DOMAIN metadata THEN metadata.chunk_id ELSE << >>

\* The file a record's metadata names.
FileOf(metadata) ==
    IF "file_path" \in DOMAIN metadata THEN metadata.file_path ELSE metadata.source

\* Runs i and j processed the same file, one after the other or side by
\* side, and each stored a record for every chunk of it.
ProcessedTwice(i, j) ==
    /\ i < j /\ j <= N
    /\ document_paths[i] = document_paths[j]
    /\ \A r \in {i, j} :
          /\ pc[r] = "returned"
          /\ result[r].success
          /\ result[r].stored_count > 0
          /\ result[r].stored_count = Len(chunks[r])

\* C8: two runs over the same document give its chunks the same set of chunk
\* ids, and the second store overwrites the first: the collection holds as
\* many records of the document as one run stored.
ReprocessingIsIdempotent ==
    \A i, j \in Runs :
        ProcessedTwice(i, j)
            => /\ { ChunkIdOf(chunks[i][k]) : k \in DOMAIN chunks[i] }
                    = { ChunkIdOf(chunks[j][k]) : k \in DOMAIN chunks[j] }
               /\ Cardinality({ r \in collection :
                                    FileOf(r.metadata) = document_paths[i] })
                    = result[i].stored_count

\* C9: every record of the collection is stored under the chunk_id of its
\* metadata, and its metadata carries the document_id of a run.
RecordIdIsChunkId ==
    \A r \in collection :
        /\ "chunk_id" \in DOMAIN r.metadata
        /\ r.id = r.metadata.chunk_id
        /\ "document_id" \in DOMAIN r.metadata
        /\ \E i \in Runs : r.metadata.document_id = result[i].document_id

\* C10: the chunks text_to_chunks returns for one content carry pairwise
\* distinct chunk ids.
ChunkIdsDistinct ==
    t2c_output.kind = "chunks"
        => \A a, b \in DOMAIN t2c_output.chunks :
               a # b => t2c_output.chunks[a].chunk_id # t2c_output.chunks[b].chunk_id

\* --------------------------------------- chunks_to_embeddings and metadata

\* The keys of a chunk's metadata.
MetadataKeys == {"section", "tags"}

\* The types of the values the extractor, the chunker or the caller put into
\* a chunk's metadata, as _sanitize_metadata tells them apart.
PyTypes ==
    {"NoneType", "str", "int", "float", "bool", "list", "tuple", "dict", "object"}

\* The types the vector store accepts as metadata values.
ScalarTypes == {"str", "int", "float", "bool"}

\* str(value): a string made from the value.
Str(value) == [type |-> "str", of |-> value.type]

\* _sanitize_metadata with lists and tuples kept as they are.
SanitizeKeepsLists(metadata) ==
    LET kept == { k \in DOMAIN metadata : metadata[k].type # "NoneType" } IN
    [k \in kept |->
        IF metadata[k].type \in ScalarTypes \cup {"list", "tuple"} THEN metadata[k]
        ELSE Str(metadata[k])]

\* DocumentProcessor._sanitize_metadata (lines 807-841): None values are
\* skipped, str, int, float and bool values are kept, every other value is
\* replaced by its str().
SanitizeMetadata(metadata) ==
    LET kept == { k \in DOMAIN metadata : metadata[k].type # "NoneType" } IN
    [k \in kept |->
        IF metadata[k].type \in ScalarTypes THEN metadata[k]
        ELSE Str(metadata[k])]

\* The metadata a chunk can carry: any of the keys, with a value of any type.
Metadatas ==
    UNION { [keys -> { [type |-> t] : t \in PyTypes }] : keys \in SUBSET MetadataKeys }

\* The chunk lists handed to chunks_to_embeddings.
MetaChunkLists ==
    UNION { [1..len -> Metadatas] : len \in 0..MaxMetaChunks }

\* chunks_to_embeddings, lines 710-723: the records built from the chunks
\* that got an embedding, each with the sanitized metadata of its chunk.
SanitizedResults(chunkList, withEmbedding) ==
    LET results == Select(chunkList, withEmbedding) IN
    [k \in DOMAIN results |-> [metadata |-> SanitizeMetadata(results[k])]]

\* DocumentProcessor.chunks_to_embeddings (lines 694-728) called with chunks
\* whose metadata holds values of every type; the embedder gives each chunk
\* a vector or None.
chunks_to_embeddings ==
    /\ sanitize_call.kind = "called"
    /\ \E ok \in SUBSET DOMAIN sanitize_call.chunks :
          sanitize_call' = [kind |-> "returned", chunks |-> sanitize_call.chunks,
                            embedded |-> ok,
                            results |-> SanitizedResults(sanitize_call.chunks, ok)]
    /\ progress' = UpdateProgress(
                       UpdateProgress(progress, "generating_embeddings",
                                      TRUE, FALSE, FALSE, FALSE),
                       NoStage, FALSE, TRUE, FALSE, FALSE)
    /\ UNCHANGED << service, t2c, embedder, store_call, chat_call, chunker_call, batch,
                    shared, main, pc, locals, published >>

InitSanitize ==
    /\ PipelineInit
    /\ ServiceIdle
    /\ t2c_input = NoCall
    /\ t2c_output = NoCall
    /\ sanitize_call \in { [kind |-> "called", chunks |-> c] : c \in MetaChunkLists }
    /\ embedder = NoCall
    /\ store_call = NoCall
    /\ chat_call = NoCall
    /\ chunker_call = NoCall

NextSanitize == chunks_to_embeddings

SpecSanitize == InitSanitize /\ [][NextSanitize]_vars

\* C11: every metadata value of every record chunks_to_embeddings returns
\* (the records process_document passes to the vector store) is a string, an
\* int, a float or a bool; a key is kept exactly when its value was not None.
\* Scalar values are kept as they are and every other value is replaced by
\* a string made from it.
MetadataValuesAreScalar ==
    sanitize_call.kind = "returned"
        => LET given == Select(sanitize_call.chunks, sanitize_call.embedded) IN
           /\ DOMAIN sanitize_call.results = DOMAIN given
           /\ \A k \in DOMAIN sanitize_call.results :
                 LET metadata == sanitize_call.results[k].metadata IN
                 /\ DOMAIN metadata =
                        { key \in DOMAIN given[k] : given[k][key].type # "NoneType" }
                 /\ \A key \in DOMAIN metadata :
                       /\ metadata[key].type \in ScalarTypes
                       /\ given[k][key].type \in ScalarTypes
                              => metadata[key] = given[k][key]
                       /\ given[k][key].type \notin ScalarTypes
                              => metadata[key] = [type |-> "str", of |-> given[k][key].type]

\* C11: a chunk whose metadata held a list and a None value was embedded and
\* its record returned.
ListAndNoneSanitized ==
    /\ sanitize_call.kind = "returned"
    /\ \E k \in sanitize_call.embedded :
          /\ DOMAIN sanitize_call.chunks[k] = MetadataKeys
          /\ sanitize_call.chunks[k]["tags"].type = "list"
          /\ sanitize_call.chunks[k]["section"].type = "NoneType"

\* ------------------------------------------------------------ TextEmbedder

\* Most calls made on one TextEmbedder.
MaxCalls == 4

\* Most texts in one generate_embeddings_batch call.
MaxTexts == 2

\* The size of the lru_cache of _get_embedding_cached (DEFAULT_CACHE_SIZE,
\* 1000 in the source), scaled down.
CacheSize == 2

DEFAULT_MAX_RETRIES == 3

\* The texts handed to the embedder: the empty string (invalid input), three
\* texts the provider can embed, and one it rejects on every request.
Texts == {"", "a", "b", "c", "too long"}
Rejected == {"too long"}

\* An embedding vector, one per text; None is << >>.
Vector(text) == <<"vector", text>>
None == << >>

\* vertex_model.get_embeddings([text]) for one text: a response with values,
\* a response without values, ResourceExhausted / ServiceUnavailable
\* ("transient"), or another provider error such as InvalidArgument
\* ("permanent").
ProviderOutcomes(text) ==
    IF text \in Rejected THEN {"permanent", "empty", "transient"}
    ELSE {"ok", "transient"}

\* vertex_model.get_embeddings(batch_texts) for a sub-batch: a request that
\* holds a rejected text is refused as a whole ("permanent") or answered
\* with no values for that text ("empty_values"); any request can meet a
\* transient error or get a response of the wrong length ("malformed").
BatchOutcomes(batch_texts) ==
    IF batch_texts \cap Rejected # {}
    THEN {"permanent", "empty_values", "transient", "malformed"}
    ELSE {"ok", "transient", "malformed"}

\* TextEmbedder.__init__: nothing cached, nothing sent, no call running.
NewEmbedder ==
    [kind |-> "embedder", cache |-> << >>, embedded |-> {}, calls |-> 0,
     sent |-> {}, last_error |-> NoError,
     call |-> [op |-> "idle", status |-> "returned"]]

\* functools.lru_cache: a hit makes the entry the most recently used one.
CacheHit(cache, text) == SelectSeq(cache, LAMBDA t : t # text) \o <<text>>

\* functools.lru_cache(maxsize): a new entry evicts the least recently used
\* one when the cache is full.
CachePut(cache, text) ==
    IF Len(cache) >= CacheSize THEN Tail(cache) \o <<text>>
    ELSE cache \o <<text>>

\* backoff.on_exception(..., (ResourceExhausted, ServiceUnavailable,
\* GoogleAPIError), max_tries=3) around _get_embedding (lines 119-124):
\* every error _get_embedding raises is one of the three classes (an empty
\* response raises GoogleAPIError, line 139; NotFound and every other
\* exception are re-raised as GoogleAPIError, lines 144-156), so every
\* failed attempt is tried again.
Retries(outcome) == outcome \in {"transient", "permanent", "empty"}

\* TextEmbedder.generate_embedding (lines 168-189) up to the first provider
\* call: invalid input returns None, a cached text returns its vector.
generate_embedding(text) ==
    /\ embedder.kind = "embedder"
    /\ embedder.call.status = "returned"
    /\ embedder.calls < MaxCalls
    /\ LET call == [op |-> "single", text |-> text, attempts |-> 0,
                    last |-> "none"] IN
       embedder' =
          IF text = ""
          THEN [embedder EXCEPT
                  !.calls = @ + 1, !.sent = {},
                  !.last_error = <<"Invalid input">>,
                  !.call = call @@ [status |-> "returned", result |-> None]]
          ELSE IF \E k \in DOMAIN embedder.cache : embedder.cache[k] = text
          THEN [embedder EXCEPT
                  !.calls = @ + 1, !.sent = {}, !.last_error = NoError,
                  !.cache = CacheHit(@, text),
                  !.call = call @@ [status |-> "returned",
                                    result |-> Vector(text)]]
          ELSE [embedder EXCEPT
                  !.calls = @ + 1, !.sent = {}, !.last_error = NoError,
                  !.call = call @@ [status |-> "running", result |-> None]]
    /\ UNCHANGED << service, t2c, sanitize_call, store_call, chat_call, chunker_call,
                    batch, shared, main, pc, locals, published, progress >>

\* One attempt of _get_embedding (lines 125-156) under the backoff decorator
\* and _get_embedding_cached (lines 158-162): a vector is cached and
\* returned; a failed attempt is tried again until max_tries attempts were
\* made, then generate_embedding returns None (lines 186-189).
get_embedding ==
    /\ embedder.kind = "embedder"
    /\ embedder.call.op = "single"
    /\ embedder.call.status = "running"
    /\ LET text == embedder.call.text
           attempts == embedder.call.attempts + 1 IN
       \E outcome \in ProviderOutcomes(text) :
          embedder' =
             IF outcome = "ok"
             THEN [embedder EXCEPT
                     !.sent = {text}, !.embedded = @ \cup {text},
                     !.cache = CachePut(@, text),
                     !.call = [@ EXCEPT !.attempts = attempts, !.last = outcome,
                                        !.status = "returned",
                                        !.result = Vector(text)]]
             ELSE IF Retries(outcome) /\ attempts < DEFAULT_MAX_RETRIES
             THEN [embedder EXCEPT
                     !.sent = {text},
                     !.last_error = IF outcome = "transient" THEN @
                                    ELSE <<outcome>>,
                     !.call = [@ EXCEPT !.attempts = attempts, !.last = outcome]]
             ELSE [embedder EXCEPT
                     !.sent = {text},
                     !.last_error = <<"Error during embedding generation", outcome>>,
                     !.call = [@ EXCEPT !.attempts = attempts, !.last = outcome,
                                        !.status = "returned", !.result = None]]
    /\ UNCHANGED << service, t2c, sanitize_call, store_call, chat_call, chunker_call,
                    batch, shared, main, pc, locals, published, progress >>

\* original_indices (lines 202-209): the positions of the valid texts.
OriginalIndices(texts) ==
    SelectSeq([i \in DOMAIN texts |-> i], LAMBDA i : texts[i] # "")

\* TextEmbedder.generate_embeddings_batch, lines 191-209: every slot starts
\* as None and the valid texts are collected.
generate_embeddings_batch(texts, batch_size) ==
    /\ embedder.kind = "embedder"
    /\ embedder.call.status = "returned"
    /\ embedder.calls < MaxCalls
    /\ embedder' =
          [embedder EXCEPT
             !.calls = @ + 1, !.sent = {},
             !.call = [op |-> "batch", texts |-> texts,
                       batch_size |-> batch_size, i |-> 0,
                       results |-> [k \in DOMAIN texts |-> None],
                       outcomes |-> [k \in DOMAIN texts |-> "not_sent"],
                       status |-> IF OriginalIndices(texts) = << >>
                                  THEN "returned" ELSE "running"]]
    /\ UNCHANGED << service, t2c, sanitize_call, store_call, chat_call, chunker_call,
                    batch, shared, main, pc, locals, published, progress >>

\* One pass of the loop of generate_embeddings_batch (lines 211-232): one
\* request for a sub-batch; an exception or a response of the wrong length
\* leaves None in every slot of the sub-batch.
batch_request ==
    /\ embedder.kind = "embedder"
    /\ embedder.call.op = "batch"
    /\ embedder.call.status = "running"
    /\ LET call == embedder.call
           original_indices == OriginalIndices(call.texts)
           last == IF call.i + call.batch_size < Len(original_indices)
                   THEN call.i + call.batch_size ELSE Len(original_indices)
           batch_indices == { original_indices[k] : k \in (call.i + 1)..last }
           batch_texts == { call.texts[idx] : idx \in batch_indices } IN
       \E outcome \in BatchOutcomes(batch_texts) :
          LET values(idx) ==
                 IF outcome = "ok" THEN Vector(call.texts[idx])
                 ELSE IF outcome = "empty_values" /\ call.texts[idx] \notin Rejected
                 THEN Vector(call.texts[idx])
                 ELSE None
              results == [idx \in DOMAIN call.texts |->
                            IF idx \in batch_indices THEN values(idx)
                            ELSE call.results[idx]] IN
          embedder' =
             [embedder EXCEPT
                !.sent = batch_texts,
                !.embedded = @ \cup { call.texts[idx] :
                                        idx \in { b \in batch_indices :
                                                    values(b) # None } },
                !.last_error = IF outcome \in {"permanent", "transient"}
                               THEN <<outcome>> ELSE @,
                !.call = [call EXCEPT
                            !.i = last,
                            !.results = results,
                            !.outcomes = [idx \in DOMAIN call.texts |->
                                            IF idx \in batch_indices THEN outcome
                                            ELSE call.outcomes[idx]],
                            !.status = IF last >= Len(original_indices)
                                       THEN "returned" ELSE "running"]]
    /\ UNCHANGED << service, t2c, sanitize_call, store_call, chat_call, chunker_call,
                    batch, shared, main, pc, locals, published, progress >>

\* The texts of one batch call.
TextLists == UNION { [1..len -> Texts] : len \in 0..MaxTexts }

InitEmbedder ==
    /\ PipelineInit
    /\ ServiceIdle
    /\ t2c_input = NoCall
    /\ t2c_output = NoCall
    /\ sanitize_call = NoCall
    /\ embedder = NewEmbedder
    /\ store_call = NoCall
    /\ chat_call = NoCall
    /\ chunker_call = NoCall

NextEmbedder ==
    \/ \E text \in Texts : generate_embedding(text)
    \/ get_embedding
    \/ \E texts \in TextLists, batch_size \in 1..MaxTexts :
          generate_embeddings_batch(texts, batch_size)
    \/ batch_request

SpecEmbedder == InitEmbedder /\ [][NextEmbedder]_vars

\* C12: generate_embeddings_batch returns one slot per input text, a vector
\* in slot k is the vector of text k, and a slot is None only when its own
\* text is invalid or rejected by the provider, or when its request met a
\* transient error or a malformed response: the failure of one item leaves
\* its siblings' vectors in place.
BatchFailureIsolated ==
    (embedder.call.op = "batch" /\ embedder.call.status = "returned")
        => LET call == embedder.call IN
           /\ DOMAIN call.results = DOMAIN call.texts
           /\ \A k \in DOMAIN call.texts :
                 /\ call.results[k] # None => call.results[k] = Vector(call.texts[k])
                 /\ call.results[k] = None
                       => \/ call.texts[k] = ""
                          \/ call.texts[k] \in Rejected
                          \/ call.outcomes[k] \in {"transient", "malformed"}

\* C13: no request to the provider holds a text that was embedded
\* successfully before.
EmbeddedTextNotSentAgain ==
    [][embedder'.sent \cap embedder.embedded = {}]_vars

\* C14: generate_embedding calls the provider at most DEFAULT_MAX_RETRIES
\* times for a text and never again after a non-transient provider error: such
\* an error ends the call with None after that one provider call.
RetriesOnlyTransient ==
    [][(embedder.call.op = "single" /\ embedder.call.status = "running")
          => /\ embedder'.call.attempts <= DEFAULT_MAX_RETRIES
             /\ embedder.call.attempts >= 1 => embedder.call.last # "permanent"
             /\ embedder'.call.last = "permanent"
                   => /\ embedder'.call.status = "returned"
                      /\ embedder'.call.result = None]_vars

\* ------------------------------------------------------------- VectorStore

\* Most records in one VectorStore.store_embeddings call.
MaxItems == 3

\* The embeddings_data of one call: each item has an embedding or not.
ItemLists == UNION { [1..len -> BOOLEAN] : len \in 0..MaxItems }

\* The calls of VectorStore.store_embeddings: the records, the store's
\* batch_size (DEFAULT_BATCH_SIZE = 100 in the source, scaled down) and
\* whether the store has a collection selected.
StoreCalls ==
    { [kind |-> "called", items |-> items, batch_size |-> size,
       selected |-> selected] :
        items \in ItemLists, size \in 1..MaxItems, selected \in BOOLEAN }

\* The ids of one batch (lines 331-357): the items of
\* embeddings_data[i:i+batch_size] that have an embedding.
BatchIds(items, i, batch_size) ==
    { k \in DOMAIN items : k > i /\ k <= i + batch_size /\ items[k] }

\* The end of the loop over the batches (lines 373-374).
StoreReturn(call) ==
    IF call.i >= Len(call.items)
    THEN [call EXCEPT !.status = "returned", !.result = call.success_count > 0]
    ELSE call

\* VectorStore.store_embeddings, lines 300-329: without a collection the
\* call returns False; otherwise the loop over the batches starts.
store_embeddings ==
    /\ store_call.kind = "called"
    /\ LET call == [kind |-> "store", items |-> store_call.items,
                    batch_size |-> store_call.batch_size, i |-> 0,
                    tries |-> 0, success_count |-> 0, written |-> {}] IN
       store_call' =
          IF ~store_call.selected
          THEN call @@ [status |-> "returned", result |-> FALSE,
                        last_error |-> <<"No collection selected">>]
          ELSE StoreReturn(call @@ [status |-> "running", result |-> FALSE,
                                    last_error |-> NoError])
    /\ UNCHANGED << service, t2c, sanitize_call, embedder, chat_call, chunker_call,
                    batch, shared, main, pc, locals, published, progress >>

\* One pass of the loop of store_embeddings (lines 331-371) with one attempt
\* of _add_embeddings_with_retry (lines 259-298): an empty batch is skipped;
\* collection.add writes the batch or raises; a raise is tried again until
\* DEFAULT_MAX_RETRIES attempts were made, then the exception reaches the
\* handler of store_embeddings, which returns False (lines 376-379).
add_embeddings_with_retry ==
    /\ store_call.kind = "store"
    /\ store_call.status = "running"
    /\ LET call == store_call
           ids == BatchIds(call.items, call.i, call.batch_size) IN
       IF ids = {}
       THEN store_call' = StoreReturn([call EXCEPT !.i = @ + call.batch_size])
       ELSE \E raised \in BOOLEAN :
               store_call' =
                  IF ~raised
                  THEN StoreReturn([call EXCEPT
                                      !.i = @ + call.batch_size,
                                      !.tries = 0,
                                      !.written = @ \cup ids,
                                      !.success_count = @ + Cardinality(ids)])
                  ELSE IF call.tries + 1 < DEFAULT_MAX_RETRIES
                  THEN [call EXCEPT !.tries = @ + 1]
                  ELSE [call EXCEPT !.tries = @ + 1,
                                    !.status = "returned",
                                    !.result = FALSE,
                                    !.last_error = <<"collection.add raised">>]
    /\ UNCHANGED << service, t2c, sanitize_call, embedder, chat_call, chunker_call,
                    batch, shared, main, pc, locals, published, progress >>

InitStore ==
    /\ PipelineInit
    /\ ServiceIdle
    /\ t2c_input = NoCall
    /\ t2c_output = NoCall
    /\ sanitize_call = NoCall
    /\ embedder = NoCall
    /\ store_call \in StoreCalls
    /\ chat_call = NoCall
    /\ chunker_call = NoCall

NextStore ==
    \/ store_embeddings
    \/ add_embeddings_with_retry

SpecStore == InitStore /\ [][NextStore]_vars

\* C15: VectorStore.store_embeddings returns True whenever at least one
\* record of the call was written to the collection, also when a later
\* batch failed after its retries.
StoredMeansSuccess ==
    (store_call.kind = "store" /\ store_call.status = "returned"
        /\ store_call.written # {})
        => store_call.result = TRUE

\* -------------------------------------------------------------- ChatEngine

\* The token budget of a context (CONTEXT_TOKEN_LIMIT, 3000 in the source),
\* scaled down.
CONTEXT_TOKEN_LIMIT == 3

\* Most chunks a retrieval returns (n_results, 5 in the source), scaled down.
MaxResults == 3

\* Most words in the text of one retrieved chunk.
MaxResultTokens == 2

\* A retrieved chunk: the number of words of its text (len(text.split()),
\* 0 for an empty text) and the filename in its metadata.
Results ==
    { [tokens |-> n, filename |-> f] :
        n \in 0..MaxResultTokens, f \in {"a.pdf", "b.pdf"} }

\* The ranked lists a retrieval returns.
ResultLists == UNION { [1..len -> Results] : len \in 0..MaxResults }

\* The calls of ChatEngine.ask with what the call meets: whether the
\* project's collection exists, whether the embedder embeds the question,
\* what the collection returns, and whether the generative model answers,
\* fails or was never initialised.
AskCalls ==
    { [kind |-> "called", op |-> "ask", collection_exists |-> e,
       embedded |-> q, results |-> r, model |-> m] :
        e \in BOOLEAN, q \in BOOLEAN, r \in ResultLists,
        m \in {"ok", "fails", "not_initialised"} }

\* The calls of format_context.
FormatCalls ==
    { [kind |-> "called", op |-> "format_context", results |-> r] :
        r \in ResultLists }

\* ChatEngine._get_relevant_context, lines 172-201: no results when the
\* collection is missing (line 176-178) or the question cannot be embedded
\* (embed_query raises inside query_by_text, which returns []).
Retrieved(call) ==
    IF call.collection_exists /\ call.embedded THEN call.results ELSE << >>

\* ChatEngine._get_relevant_context, lines 203-216: the positions of the
\* results with a non-empty text, all of them, in ranked order.
ContextParts(results) ==
    SelectSeq([i \in DOMAIN results |-> i], LAMBDA i : results[i].tokens > 0)

\* ask, lines 280-287: the filenames of the results, each once, in order.
Sources(results) ==
    [k \in DOMAIN SelectSeq([i \in DOMAIN results |-> i],
                            LAMBDA i : \A j \in 1..(i - 1) :
                                results[j].filename # results[i].filename)
        |-> results[SelectSeq([i \in DOMAIN results |-> i],
                              LAMBDA i : \A j \in 1..(i - 1) :
                                  results[j].filename # results[i].filename)[k]].filename]

\* ask without its handler: the exception reaches the caller.
AskRaises(error, context) ==
    [raised |-> TRUE, success |-> FALSE, answer |-> << >>, sources |-> << >>,
     error |-> error, context |-> context, prompted |-> TRUE, history |-> 0]

\* The handler of ask (lines 311-320): a failed result with a fixed answer.
\* The prompt reached the model unless there is no chat session to send to.
AskExcept(error, context) ==
    [raised |-> FALSE, success |-> FALSE,
     answer |-> <<"I encountered an error while trying to process your question.">>,
     sources |-> << >>, error |-> error, context |-> context,
     prompted |-> error # <<"not_initialised">>, history |-> 0]

\* ChatEngine.ask (lines 250-320) with _get_relevant_context (161-221).
Ask(call) ==
    LET results == Retrieved(call)
        context == ContextParts(results) IN
    IF context = << >>
    THEN [raised |-> FALSE, success |-> FALSE,
          answer |-> <<"I don't have any relevant information from your documents">>,
          sources |-> << >>, error |-> <<"No relevant context found">>,
          context |-> << >>, prompted |-> FALSE, history |-> 0]
    ELSE IF call.model # "ok"
    THEN AskExcept(<<call.model>>, context)
    ELSE [raised |-> FALSE, success |-> TRUE, answer |-> <<"response.text">>,
          sources |-> Sources(results), error |-> NoError,
          context |-> context, prompted |-> TRUE, history |-> 2]

\* format_context (routes/chat_routes.py 62-83, routes/chat_helpers.py
\* 45-65): results are included whole, in order, while the token count
\* stays within CONTEXT_TOKEN_LIMIT; the first one that does not fit ends
\* the loop.
RECURSIVE FormatContext(_, _, _)
FormatContext(results, i, token_count) ==
    IF i > Len(results) THEN << >>
    ELSE IF token_count + results[i].tokens <= CONTEXT_TOKEN_LIMIT
    THEN <<i>> \o FormatContext(results, i + 1, token_count + results[i].tokens)
    ELSE << >>

ask ==
    /\ chat_call.kind = "called"
    /\ chat_call.op = "ask"
    /\ chat_call' = [kind |-> "returned", op |-> "ask", call |-> chat_call,
                     ranked |-> Retrieved(chat_call),
                     result |-> Ask(chat_call)]
    /\ UNCHANGED << service, t2c, sanitize_call, embedder, store_call, chunker_call,
                    batch, shared, main, pc, locals, published, progress >>

format_context ==
    /\ chat_call.kind = "called"
    /\ chat_call.op = "format_context"
    /\ chat_call' = [kind |-> "returned", op |-> "format_context",
                     call |-> chat_call, ranked |-> chat_call.results,
                     result |-> [context |-> FormatContext(chat_call.results, 1, 0),
                                 prompted |-> TRUE]]
    /\ UNCHANGED << service, t2c, sanitize_call, embedder, store_call, chunker_call,
                    batch, shared, main, pc, locals, published, progress >>

InitChat ==
    /\ PipelineInit
    /\ ServiceIdle
    /\ t2c_input = NoCall
    /\ t2c_output = NoCall
    /\ sanitize_call = NoCall
    /\ embedder = NoCall
    /\ store_call = NoCall
    /\ chat_call \in AskCalls \cup FormatCalls
    /\ chunker_call = NoCall

NextChat ==
    \/ ask
    \/ format_context

SpecChat == InitChat /\ [][NextChat]_vars

\* C16: ChatEngine.ask never raises to its caller, and when the collection
\* is missing or empty, the question cannot be embedded, retrieval returns
\* nothing or the generative model fails or is not initialised, its result
\* has success false, a non-empty answer and no sources.
AskNeverRaises ==
    (chat_call.kind = "returned" /\ chat_call.op = "ask")
        => /\ ~chat_call.result.raised
           /\ (\/ ~chat_call.call.collection_exists
               \/ chat_call.call.results = << >>
               \/ ~chat_call.call.embedded
               \/ chat_call.ranked = << >>
               \/ chat_call.call.model # "ok")
                 => /\ chat_call.result.success = FALSE
                    /\ chat_call.result.answer # << >>
                    /\ chat_call.result.sources = << >>

\* C16: ask found context and the generative model failed.
ModelFailedWithContext ==
    /\ chat_call.kind = "returned"
    /\ chat_call.op = "ask"
    /\ chat_call.call.model = "fails"
    /\ chat_call.result.context # << >>
    /\ chat_call.result.success = FALSE

\* The tokens of the results at the given positions.
RECURSIVE TokenSum(_, _)
TokenSum(results, positions) ==
    IF positions = << >> THEN 0
    ELSE results[Head(positions)].tokens + TokenSum(results, Tail(positions))

\* C17: the context handed to the generative model holds the ranked chunks
\* 1..k, each whole and in order, where k is the last position up to which
\* the token estimates stay within CONTEXT_TOKEN_LIMIT (chunks with an empty
\* text may be left out); this holds for ask and for format_context.
ContextWithinBudget ==
    (chat_call.kind = "returned" /\ chat_call.result.prompted)
        => LET results == chat_call.ranked
               context == chat_call.result.context
               fits == FormatContext(results, 1, 0) IN
           /\ TokenSum(results, context) <= CONTEXT_TOKEN_LIMIT
           /\ SelectSeq(context, LAMBDA i : results[i].tokens > 0)
                 = SelectSeq(fits, LAMBDA i : results[i].tokens > 0)

\* ------------------------------------------------------------- TextChunker

\* Longest text handed to the chunker.
MaxLen == 5

\* Largest chunk size handed to the chunker.
MaxChunkSize == 3

\* The characters of a text: a letter and a whitespace character.
Chars == {"a", " "}

\* The texts handed to the chunker, as sequences of characters.
ChunkerTexts == UNION { [1..len -> Chars] : len \in 0..MaxLen }

\* The overlap_size values: negative, zero, below and at or above the
\* chunk size.
Overlaps == (-1)..(MaxChunkSize + 1)

\* str.isspace for one character.
IsSpace(c) == c \in {" ", "\n"}

Min(a, b) == IF a < b THEN a ELSE b

\* text[a:b] without its last character.
SliceDropsLast(text, a, b) == SubSeq(text, a + 1, b - 1)

\* text[a:b] for 0 <= a <= b <= len(text).
Slice(text, a, b) == SubSeq(text, a + 1, b)

\* str.lstrip
RECURSIVE LStrip(_)
LStrip(s) ==
    IF s # << >> /\ IsSpace(Head(s)) THEN LStrip(Tail(s)) ELSE s

\* str.rstrip
RECURSIVE RStrip(_)
RStrip(s) ==
    IF s # << >> /\ IsSpace(s[Len(s)]) THEN RStrip(SubSeq(s, 1, Len(s) - 1))
    ELSE s

\* str.strip
Strip(s) == RStrip(LStrip(s))

\* The search for a breaking point (lines 181-183 and 346-348): end_pos
\* moves back while it is above current_pos and text[end_pos] is not
\* whitespace.
RECURSIVE BackOff(_, _, _)
BackOff(text, current_pos, end_pos) ==
    IF end_pos > current_pos /\ ~IsSpace(text[end_pos + 1])
    THEN BackOff(text, current_pos, end_pos - 1)
    ELSE end_pos

\* end_pos of the chunk that starts at current_pos (lines 176-187 and
\* 341-352).
EndPos(text, current_pos, size) ==
    LET text_length == Len(text)
        end_pos == Min(current_pos + size, text_length) IN
    IF end_pos < text_length
    THEN IF BackOff(text, current_pos, end_pos) = current_pos
         THEN end_pos
         ELSE BackOff(text, current_pos, end_pos)
    ELSE end_pos

\* The chunk cut at current_pos (lines 189-205 and 354-370): its stripped
\* text and its metadata, for an empty document_metadata.
Chunk(text, current_pos, end_pos, chunk_index, strategy) ==
    [text |-> Strip(Slice(text, current_pos, end_pos)),
     metadata |-> [chunk_index |-> chunk_index,
                   chunk_start_char |-> current_pos,
                   chunk_end_char |-> end_pos,
                   chunk_strategy |-> strategy,
                   chunk_size_chars |-> Len(Strip(Slice(text, current_pos, end_pos)))]]

\* The next position of chunk_with_overlap without the progress check.
NextPosWithoutCheck(chunk_start_char, end_pos, overlap, text_length) ==
    IF end_pos < text_length THEN end_pos - overlap ELSE text_length

\* The next position of chunk_with_overlap (lines 372-377): back by the
\* overlap, but past the chunk's end when that does not pass its start.
NextPos(chunk_start_char, end_pos, overlap, text_length) ==
    LET current_pos == IF end_pos < text_length THEN end_pos - overlap
                       ELSE text_length IN
    IF current_pos <= chunk_start_char THEN end_pos ELSE current_pos

\* The calls of chunk_by_size and chunk_with_overlap.
ChunkerCalls ==
    { [kind |-> "called", op |-> "chunk_by_size", text |-> text,
       chunk_size |-> size] :
        text \in ChunkerTexts, size \in 1..MaxChunkSize }
    \cup
    { [kind |-> "called", op |-> "chunk_with_overlap", text |-> text,
       chunk_size |-> size, overlap_size |-> overlap] :
        text \in ChunkerTexts, size \in 1..MaxChunkSize, overlap \in Overlaps }

\* The loop condition (lines 175 and 340) and the return.
LoopStatus(current_pos, text) ==
    IF current_pos < Len(text) THEN "running" ELSE "returned"

\* TextChunker.chunk_by_size, lines 166-173: the state before the loop.
chunk_by_size ==
    /\ chunker_call.kind = "called"
    /\ chunker_call.op = "chunk_by_size"
    /\ chunker_call' = [kind |-> LoopStatus(0, chunker_call.text),
                        op |-> "chunk_by_size", text |-> chunker_call.text,
                        size |-> chunker_call.chunk_size,
                        chunks |-> << >>, current_pos |-> 0]
    /\ UNCHANGED << service, t2c, sanitize_call, embedder, store_call, chat_call,
                    batch, shared, main, pc, locals, published, progress >>

\* One pass of the loop of chunk_by_size (lines 175-209).
chunk_by_size_loop ==
    /\ chunker_call.kind = "running"
    /\ chunker_call.op = "chunk_by_size"
    /\ LET call == chunker_call
           end_pos == EndPos(call.text, call.current_pos, call.size) IN
       chunker_call' =
          [call EXCEPT
             !.chunks = Append(@, Chunk(call.text, call.current_pos, end_pos,
                                        Len(call.chunks), "size")),
             !.current_pos = end_pos,
             !.kind = LoopStatus(end_pos, call.text)]
    /\ UNCHANGED << service, t2c, sanitize_call, embedder, store_call, chat_call,
                    batch, shared, main, pc, locals, published, progress >>

\* TextChunker.chunk_with_overlap, lines 320-338: the overlap is clamped to
\* size - 1 (line 332).
chunk_with_overlap ==
    /\ chunker_call.kind = "called"
    /\ chunker_call.op = "chunk_with_overlap"
    /\ chunker_call' = [kind |-> LoopStatus(0, chunker_call.text),
                        op |-> "chunk_with_overlap", text |-> chunker_call.text,
                        size |-> chunker_call.chunk_size,
                        overlap_size |-> chunker_call.overlap_size,
                        overlap |-> Min(chunker_call.overlap_size,
                                        chunker_call.chunk_size - 1),
                        chunks |-> << >>, current_pos |-> 0]
    /\ UNCHANGED << service, t2c, sanitize_call, embedder, store_call, chat_call,
                    batch, shared, main, pc, locals, published, progress >>

\* One pass of the loop of chunk_with_overlap (lines 340-380).
chunk_with_overlap_loop ==
    /\ chunker_call.kind = "running"
    /\ chunker_call.op = "chunk_with_overlap"
    /\ LET call == chunker_call
           end_pos == EndPos(call.text, call.current_pos, call.size)
           chunk == Chunk(call.text, call.current_pos, end_pos,
                          Len(call.chunks), "overlap")
           current_pos == NextPos(call.current_pos, end_pos, call.overlap,
                                  Len(call.text)) IN
       chunker_call' =
          [call EXCEPT
             !.chunks = Append(@, [chunk EXCEPT
                                     !.metadata = @ @@
                                        [overlap_size_chars |-> call.overlap]]),
             !.current_pos = current_pos,
             !.kind = LoopStatus(current_pos, call.text)]
    /\ UNCHANGED << service, t2c, sanitize_call, embedder, store_call, chat_call,
                    batch, shared, main, pc, locals, published, progress >>

InitChunker ==
    /\ PipelineInit
    /\ ServiceIdle
    /\ t2c_input = NoCall
    /\ t2c_output = NoCall
    /\ sanitize_call = NoCall
    /\ embedder = NoCall
    /\ store_call = NoCall
    /\ chat_call = NoCall
    /\ chunker_call \in ChunkerCalls

NextChunker ==
    \/ chunk_by_size
    \/ chunk_by_size_loop
    \/ chunk_with_overlap
    \/ chunk_with_overlap_loop

SpecChunker == InitChunker /\ [][NextChunker]_vars

\* The characters of a text that are not whitespace.
NonSpace(s) == SelectSeq(s, LAMBDA c : ~IsSpace(c))

\* The texts of the chunks, one after the other.
RECURSIVE ChunkTexts(_)
ChunkTexts(chunkList) ==
    IF chunkList = << >> THEN << >>
    ELSE Head(chunkList).text \o ChunkTexts(Tail(chunkList))

\* C18: the chunks chunk_by_size returns cover the text without gap or
\* overlap (the first starts at 0, each starts where the one before ends,
\* the last ends at len(text)), each chunk's text is its slice of the text
\* stripped, and the chunk texts one after the other hold the text's
\* characters except whitespace.
ChunkBySizeCovers ==
    (chunker_call.kind = "returned" /\ chunker_call.op = "chunk_by_size")
        => LET text == chunker_call.text
               chunkList == chunker_call.chunks IN
           /\ chunkList = << >> <=> text = << >>
           /\ chunkList # << >>
                 => /\ chunkList[1].metadata.chunk_start_char = 0
                    /\ chunkList[Len(chunkList)].metadata.chunk_end_char = Len(text)
           /\ \A k \in DOMAIN chunkList :
                 /\ k > 1 => chunkList[k].metadata.chunk_start_char
                                = chunkList[k - 1].metadata.chunk_end_char
                 /\ chunkList[k].metadata.chunk_start_char
                       < chunkList[k].metadata.chunk_end_char
                 /\ chunkList[k].text
                       = Strip(SubSeq(text, chunkList[k].metadata.chunk_start_char + 1,
                                      chunkList[k].metadata.chunk_end_char))
           /\ NonSpace(ChunkTexts(chunkList)) = NonSpace(text)

\* C18: chunk_by_size cut a text at a whitespace character and stripped it
\* from the following chunk.
CutAtWhitespace ==
    /\ chunker_call.kind = "returned"
    /\ chunker_call.op = "chunk_by_size"
    /\ \E k \in DOMAIN chunker_call.chunks :
          /\ k > 1
          /\ IsSpace(chunker_call.text[chunker_call.chunks[k].metadata.chunk_start_char + 1])
          /\ chunker_call.chunks[k].text # << >>
          /\ chunker_call.chunks[k].metadata.chunk_size_chars
                < chunker_call.chunks[k].metadata.chunk_end_char
                     - chunker_call.chunks[k].metadata.chunk_start_char

\* C19: in every pass of the loop of chunk_with_overlap current_pos
\* increases, and the number of chunks never exceeds len(text), for every
\* text, chunk size and overlap value.
OverlapLoopProgresses ==
    [][(chunker_call.kind = "running" /\ chunker_call.op = "chunk_with_overlap")
          => /\ chunker_call'.current_pos > chunker_call.current_pos
             /\ Len(chunker_call'.chunks) <= Len(chunker_call.text)]_vars

\* C19: chunk_with_overlap returned several chunks for an overlap_size at
\* or above the chunk size.
OverlapAboveSizeReturned ==
    /\ chunker_call.kind = "returned"
    /\ chunker_call.op = "chunk_with_overlap"
    /\ chunker_call.overlap_size >= chunker_call.size
    /\ Len(chunker_call.chunks) >= 2

\* C20: two consecutive chunks of chunk_with_overlap share as many
\* characters (the first one's chunk_end_char minus the next one's
\* chunk_start_char) as the configured overlap clamped to chunk_size - 1.
ConsecutiveChunksShareOverlap ==
    (chunker_call.kind \in {"running", "returned"}
        /\ chunker_call.op = "chunk_with_overlap")
        => \A k \in DOMAIN chunker_call.chunks :
              k > 1 => chunker_call.chunks[k - 1].metadata.chunk_end_char
                          - chunker_call.chunks[k].metadata.chunk_start_char
                       = Min(chunker_call.overlap_size, chunker_call.size - 1)

\* ------------------------------------------------------ merge_small_chunks

\* Most chunks handed to merge_small_chunks.
MaxMergeChunks == 3

\* The chunk lists handed to merge_small_chunks: the length of each chunk's
\* (non-empty) text.
MergeInputs == UNION { [1..len -> 1..MaxChunkSize] : len \in 0..MaxMergeChunks }

\* The calls of merge_small_chunks with min_chunk_size <= max_chunk_size.
MergeCalls ==
    { [kind |-> "called", op |-> "merge_small_chunks", chunks |-> c,
       min_chunk_size |-> limits[1], max_chunk_size |-> limits[2]] :
        c \in MergeInputs,
        limits \in { l \in (1..MaxChunkSize) \X (1..MaxChunkSize) : l[1] <= l[2] } }

\* No current_chunk yet (None).
NoChunk == [size |-> 0, merged_indices |-> << >>]

\* The loop of merge_small_chunks (text_chunker.py 465-493, the same in
\* chunking_utils.py 159-187) from input position i on: a chunk that does
\* not fit starts a new current_chunk, and the one before it is appended
\* only when it reaches min_chunk_size; a chunk that fits is joined with a
\* two character separator; the last current_chunk is always appended
\* (lines 495-497).
RECURSIVE MergeLoop(_, _, _, _, _, _)
MergeLoop(chunkList, i, current_chunk, merged, min_chunk_size, max_size) ==
    IF i > Len(chunkList)
    THEN IF current_chunk = NoChunk THEN merged ELSE Append(merged, current_chunk)
    ELSE IF current_chunk = NoChunk
            \/ current_chunk.size + chunkList[i] > max_size
    THEN MergeLoop(chunkList, i + 1,
                   [size |-> chunkList[i], merged_indices |-> <<i>>],
                   IF current_chunk # NoChunk /\ current_chunk.size >= min_chunk_size
                   THEN Append(merged, current_chunk) ELSE merged,
                   min_chunk_size, max_size)
    ELSE MergeLoop(chunkList, i + 1,
                   [size |-> current_chunk.size + 2 + chunkList[i],
                    merged_indices |-> Append(current_chunk.merged_indices, i)],
                   merged, min_chunk_size, max_size)

\* TextChunker.merge_small_chunks (lines 441-499) and
\* chunking_utils.merge_small_chunks (lines 132-193).
merge_small_chunks ==
    /\ chunker_call.kind = "called"
    /\ chunker_call.op = "merge_small_chunks"
    /\ chunker_call' =
          [kind |-> "returned", op |-> "merge_small_chunks",
           chunks |-> chunker_call.chunks,
           min_chunk_size |-> chunker_call.min_chunk_size,
           max_chunk_size |-> chunker_call.max_chunk_size,
           result |-> MergeLoop(chunker_call.chunks, 1, NoChunk, << >>,
                                chunker_call.min_chunk_size,
                                chunker_call.max_chunk_size)]
    /\ UNCHANGED << service, t2c, sanitize_call, embedder, store_call, chat_call,
                    batch, shared, main, pc, locals, published, progress >>

InitMerge ==
    /\ PipelineInit
    /\ ServiceIdle
    /\ t2c_input = NoCall
    /\ t2c_output = NoCall
    /\ sanitize_call = NoCall
    /\ embedder = NoCall
    /\ store_call = NoCall
    /\ chat_call = NoCall
    /\ chunker_call \in MergeCalls

NextMerge == merge_small_chunks

SpecMerge == InitMerge /\ [][NextMerge]_vars

\* C21: for input chunks that are themselves within max_chunk_size, no
\* chunk merge_small_chunks returns except possibly the last is shorter
\* than min_chunk_size, and none is longer than max_chunk_size.
MergedSizesWithinLimits ==
    (chunker_call.kind = "returned" /\ chunker_call.op = "merge_small_chunks"
        /\ \A i \in DOMAIN chunker_call.chunks :
              chunker_call.chunks[i] <= chunker_call.max_chunk_size)
        => \A k \in DOMAIN chunker_call.result :
              /\ k < Len(chunker_call.result)
                    => chunker_call.result[k].size >= chunker_call.min_chunk_size
              /\ chunker_call.result[k].size <= chunker_call.max_chunk_size

\* The input positions the returned chunks hold, in output order.
RECURSIVE MergedIndices(_)
MergedIndices(merged) ==
    IF merged = << >> THEN << >>
    ELSE Head(merged).merged_indices \o MergedIndices(Tail(merged))

\* C27: merge_small_chunks keeps every input chunk's text in exactly one
\* returned chunk and keeps the input order.
MergeConservesContent ==
    (chunker_call.kind = "returned" /\ chunker_call.op = "merge_small_chunks")
        => MergedIndices(chunker_call.result)
              = [i \in DOMAIN chunker_call.chunks |-> i]

\* ------------------------------------------ paragraph and layout chunking

\* Most layout blocks of one document, and most paragraphs of one text.
MaxBlocks == 4

\* Longest paragraph.
MaxParagraphChars == 2

\* The default max_paragraph_length of chunk_by_paragraph
\* (DEFAULT_CHUNK_SIZE, 1000 in the source), scaled down.
DEFAULT_CHUNK_SIZE == 6

\* DEFAULT_SEPARATOR
Sep == <<"\n", "\n">>

\* One letter per block or paragraph, so that its text can be told apart.
Letters == <<"a", "b", "c", "d", "e", "f">>

\* The text of paragraph k, n characters long, and of heading k.
Body(k, n) == [j \in 1..n |-> Letters[k]]
Title(k) == <<"#", Letters[k]>>

\* separator.join(texts)
RECURSIVE Join(_)
Join(texts) ==
    IF texts = << >> THEN << >>
    ELSE IF Len(texts) = 1 THEN texts[1]
    ELSE texts[1] \o Sep \o Join(Tail(texts))

\* re.split on the separator (line 232): the pieces between the separators.
RECURSIVE SplitAt(_, _)
SplitAt(text, piece) ==
    IF text = << >> THEN <<piece>>
    ELSE IF Len(text) >= 2 /\ SubSeq(text, 1, 2) = Sep
    THEN <<piece>> \o SplitAt(SubSeq(text, 3, Len(text)), << >>)
    ELSE SplitAt(Tail(text), Append(piece, Head(text)))

\* combined_paragraphs (lines 234-243): every piece after the first keeps
\* the separator in front of it.
CombinedParagraphs(text) ==
    LET pieces == SplitAt(text, << >>) IN
    [k \in DOMAIN pieces |-> IF k = 1 THEN pieces[1] ELSE Sep \o pieces[k]]

\* A chunk of chunk_by_paragraph (lines 259-271 and 284-296).
ParagraphChunk(current_chunk, current_start, chunk_index, document_metadata) ==
    [text |-> Strip(current_chunk),
     metadata |-> [chunk_index |-> chunk_index,
                   chunk_start_char |-> current_start,
                   chunk_end_char |-> current_start + Len(current_chunk),
                   chunk_strategy |-> "paragraph",
                   chunk_size_chars |-> Len(current_chunk)] @@ document_metadata]

\* The loop of chunk_by_paragraph (lines 251-298): empty paragraphs are
\* skipped, paragraphs are added to current_chunk, and current_chunk is
\* made a chunk when the next paragraph would take it over max_length.
RECURSIVE ParagraphLoop(_, _, _, _, _, _, _)
ParagraphLoop(paragraphs, k, current_chunk, current_start, made, max_length, document_metadata) ==
    IF k > Len(paragraphs)
    THEN IF current_chunk # << >>
         THEN Append(made, ParagraphChunk(current_chunk, current_start,
                                          Len(made), document_metadata))
         ELSE made
    ELSE IF Strip(paragraphs[k]) = << >>
    THEN ParagraphLoop(paragraphs, k + 1, current_chunk, current_start, made,
                       max_length, document_metadata)
    ELSE IF Len(current_chunk) + Len(paragraphs[k]) > max_length
            /\ current_chunk # << >>
    THEN ParagraphLoop(paragraphs, k + 1, paragraphs[k],
                       current_start + Len(current_chunk),
                       Append(made, ParagraphChunk(current_chunk, current_start,
                                                   Len(made), document_metadata)),
                       max_length, document_metadata)
    ELSE ParagraphLoop(paragraphs, k + 1, current_chunk \o paragraphs[k],
                       current_start, made, max_length, document_metadata)

\* TextChunker.chunk_by_paragraph (lines 213-299) with the default
\* separator and max_paragraph_length.
ChunkByParagraph(text, document_metadata) ==
    ParagraphLoop(CombinedParagraphs(text), 1, << >>, 0, << >>,
                  DEFAULT_CHUNK_SIZE, document_metadata)

\* A heading pattern of the chunker matches the text.
MatchesHeading(text) == text # << >> /\ Head(text) = "#"

\* The grouping of chunk_layout with a heading joined to the section
\* before it.
RECURSIVE SectionsWithoutHeadings(_, _, _)
SectionsWithoutHeadings(blocks, k, sections) ==
    IF k > Len(blocks) THEN sections
    ELSE IF sections = << >>
    THEN SectionsWithoutHeadings(blocks, k + 1,
             <<[title |-> <<"Introduction">>,
                blocks |-> IF MatchesHeading(blocks[k].text) THEN << >>
                           ELSE <<blocks[k]>>]>>)
    ELSE SectionsWithoutHeadings(blocks, k + 1,
             [sections EXCEPT ![Len(sections)].blocks =
                 IF MatchesHeading(blocks[k].text) THEN @ ELSE Append(@, blocks[k])])

\* The grouping of chunk_layout (lines 54-62): a block that matches a
\* heading pattern starts a section with its text as title; other blocks
\* join the last section, "Introduction" when there is none.
RECURSIVE Sections(_, _, _)
Sections(blocks, k, sections) ==
    IF k > Len(blocks) THEN sections
    ELSE IF MatchesHeading(blocks[k].text)
    THEN Sections(blocks, k + 1,
                  Append(sections, [title |-> Strip(blocks[k].text),
                                    blocks |-> << >>]))
    ELSE IF sections = << >>
    THEN Sections(blocks, k + 1,
                  <<[title |-> <<"Introduction">>, blocks |-> <<blocks[k]>>]>>)
    ELSE Sections(blocks, k + 1,
                  [sections EXCEPT ![Len(sections)].blocks = Append(@, blocks[k])])

\* prev_text[-overlap_chars:]
LastChars(text, n) ==
    IF n = 0 \/ n >= Len(text) THEN text
    ELSE SubSeq(text, Len(text) - n + 1, Len(text))

\* The text of a section (lines 67-73): its paragraph and caption blocks
\* joined, behind the end of the previous section's text.
SectionText(section, prev_text, overlap_chars) ==
    LET kept == SelectSeq(section.blocks,
                          LAMBDA b : b.block_type \in {"paragraph", "caption"})
        section_text == Join([k \in DOMAIN kept |-> kept[k].text]) IN
    IF prev_text # << >>
    THEN LastChars(prev_text, overlap_chars) \o Sep \o section_text
    ELSE section_text

\* The loop over the sections of chunk_layout (lines 64-88): each section's
\* text is chunked by a TextChunker({'chunk_size': max_paragraph_length}),
\* whose chunk_by_paragraph reads neither that key nor the separator, and
\* each chunk is marked with the section, its index in it and 'layout'.
RECURSIVE LayoutLoop(_, _, _, _, _)
LayoutLoop(sections, s, prev_text, all_chunks, overlap_chars) ==
    IF s > Len(sections) THEN all_chunks
    ELSE LET section_text == SectionText(sections[s], prev_text, overlap_chars)
             sec_chunks == ChunkByParagraph(section_text,
                                            [section |-> sections[s].title]) IN
         LayoutLoop(sections, s + 1, section_text,
                    all_chunks \o
                       [idx \in DOMAIN sec_chunks |->
                          [sec_chunks[idx] EXCEPT
                             !.metadata = [section |-> sections[s].title,
                                           section_index |-> idx - 1,
                                           chunk_strategy |-> "layout"] @@ @]],
                    overlap_chars)

\* chunk_layout (lines 38-90) on the blocks the layout parser yields.
ChunkLayout(blocks, overlap_chars) ==
    LayoutLoop(Sections(blocks, 1, << >>), 1, << >>, << >>, overlap_chars)

\* TextChunker.chunk_by_layout: layout chunking of the parser's blocks, and
\* paragraph chunking of the text when the parser yields none.
ChunkByLayout(text, blocks, overlap_chars) ==
    IF blocks = << >> THEN ChunkByParagraph(text, << >>)
    ELSE ChunkLayout(blocks, overlap_chars)

\* The block at position k of a document: a heading, a paragraph or a
\* figure.
BlocksAt(k) ==
    { [text |-> Title(k), block_type |-> "heading"],
      [text |-> Body(k, 1), block_type |-> "figure"] }
    \cup { [text |-> Body(k, n), block_type |-> "paragraph"] :
             n \in 1..MaxParagraphChars }

\* The block lists the layout parser yields.
RECURSIVE BlockListsOf(_)
BlockListsOf(len) ==
    IF len = 0 THEN {<< >>}
    ELSE { Append(b, x) : b \in BlockListsOf(len - 1), x \in BlocksAt(len) }

BlockLists == UNION { BlockListsOf(len) : len \in 0..MaxBlocks }

\* The texts handed to chunk_by_layout: paragraphs joined by the separator.
ParagraphTexts ==
    { Join([k \in DOMAIN sizes |-> Body(k, sizes[k])]) :
        sizes \in UNION { [1..len -> 1..MaxParagraphChars] : len \in 0..MaxBlocks } }

LayoutCalls ==
    { [kind |-> "called", op |-> "chunk_layout", blocks |-> b,
       overlap_chars |-> o] : b \in BlockLists, o \in 1..MaxParagraphChars }
    \cup
    { [kind |-> "called", op |-> "chunk_by_layout", text |-> t,
       blocks |-> << >>, overlap_chars |-> 1] : t \in ParagraphTexts }

chunk_layout ==
    /\ chunker_call.kind = "called"
    /\ chunker_call.op = "chunk_layout"
    /\ chunker_call' = [kind |-> "returned", op |-> "chunk_layout",
                        blocks |-> chunker_call.blocks,
                        overlap_chars |-> chunker_call.overlap_chars,
                        chunks |-> ChunkLayout(chunker_call.blocks,
                                               chunker_call.overlap_chars)]
    /\ UNCHANGED << service, t2c, sanitize_call, embedder, store_call, chat_call,
                    batch, shared, main, pc, locals, published, progress >>

chunk_by_layout ==
    /\ chunker_call.kind = "called"
    /\ chunker_call.op = "chunk_by_layout"
    /\ chunker_call' = [kind |-> "returned", op |-> "chunk_by_layout",
                        text |-> chunker_call.text,
                        blocks |-> chunker_call.blocks,
                        chunks |-> ChunkByLayout(chunker_call.text,
                                                 chunker_call.blocks,
                                                 chunker_call.overlap_chars)]
    /\ UNCHANGED << service, t2c, sanitize_call, embedder, store_call, chat_call,
                    batch, shared, main, pc, locals, published, progress >>

InitLayout ==
    /\ PipelineInit
    /\ ServiceIdle
    /\ t2c_input = NoCall
    /\ t2c_output = NoCall
    /\ sanitize_call = NoCall
    /\ embedder = NoCall
    /\ store_call = NoCall
    /\ chat_call = NoCall
    /\ chunker_call \in LayoutCalls

NextLayout ==
    \/ chunk_layout
    \/ chunk_by_layout

SpecLayout == InitLayout /\ [][NextLayout]_vars

\* The heading that owns block k: the last heading block before it, 0 when
\* there is none.
RECURSIVE HeadingOf(_, _)
HeadingOf(blocks, k) ==
    IF k = 0 THEN 0
    ELSE IF MatchesHeading(blocks[k].text) THEN k
    ELSE HeadingOf(blocks, k - 1)

\* The section title that belongs to heading block h.
TitleOf(blocks, h) == IF h = 0 THEN <<"Introduction">> ELSE blocks[h].text

\* The position of the heading block with the given title, 0 for none.
SectionNo(blocks, title) ==
    IF \E h \in DOMAIN blocks : blocks[h].text = title
    THEN CHOOSE h \in DOMAIN blocks : blocks[h].text = title
    ELSE 0

\* The text holds the part as a run of characters.
Contains(text, part) ==
    \E i \in 0..(Len(text) - Len(part)) :
        SubSeq(text, i + 1, i + Len(part)) = part

FallbackOneChunkPerParagraph ==
    (chunker_call.kind = "returned" /\ chunker_call.op = "chunk_by_layout"
        /\ chunker_call.blocks = << >>)
        => LET paragraphs == SelectSeq(SplitAt(chunker_call.text, << >>),
                                       LAMBDA t : t # << >>)
               chunkList == chunker_call.chunks IN
           /\ Len(chunkList) = Len(paragraphs)
           /\ \A k \in DOMAIN chunkList :
                 /\ chunkList[k].metadata.chunk_strategy = "paragraph"
                 /\ k \in DOMAIN paragraphs => chunkList[k].text = paragraphs[k]

\* ------------------------------------------------------ the progress lock

\* The threads that write the progress of one DocumentProcessor at a time.
MaxThreads == 2

Threads == 1..MaxThreads

\* What a thread runs: _update_progress(increment_step=True), the reset at
\* the start of process_document, or the reset at the start of
\* process_documents, which replaces the object.
ProgressOps == {"_update_progress", "process_document", "process_documents"}

\* The threads before any of them has taken progress_lock; object counts
\* the ProcessingProgress objects self.progress has named.
ProgressThreads ==
    { [kind |-> "running", lock |-> 0,
       progress |-> [object |-> 1, stage |-> "initialized", current_step |-> n],
       initial_step |-> n,
       thread |-> [t \in Threads |-> [op |-> ops[t], pc |-> "start",
                                      read |-> 0, raised |-> FALSE]]] :
        n \in 0..1, ops \in [Threads -> ProgressOps] }

\* 'with self.progress_lock:' entered without waiting for the lock.
LockAcquireAlways(t) ==
    /\ progress_threads.kind = "running"
    /\ progress_threads.thread[t].pc = "start"
    /\ progress_threads' =
          [progress_threads EXCEPT !.lock = t, !.thread[t].pc = "locked"]

\* 'with self.progress_lock:' (lines 123, 187, 348): the thread waits until
\* the lock is free and takes it.
lock_acquire(t) ==
    /\ progress_threads.kind = "running"
    /\ progress_threads.thread[t].pc = "start"
    /\ progress_threads.lock = 0
    /\ progress_threads' =
          [progress_threads EXCEPT !.lock = t, !.thread[t].pc = "locked"]

\* The read of 'self.progress.current_step += 1' (line 130).
read_current_step(t) ==
    /\ progress_threads.kind = "running"
    /\ progress_threads.thread[t].pc = "locked"
    /\ progress_threads.thread[t].op = "_update_progress"
    /\ progress_threads' =
          [progress_threads EXCEPT
              !.thread[t].read = progress_threads.progress.current_step,
              !.thread[t].pc = "read"]

\* The write of 'self.progress.current_step += 1' (line 130).
write_current_step(t) ==
    /\ progress_threads.kind = "running"
    /\ progress_threads.thread[t].pc = "read"
    /\ progress_threads' =
          [progress_threads EXCEPT
              !.progress.current_step = progress_threads.thread[t].read + 1,
              !.thread[t].pc = "callback"]

\* The field writes that open process_document (lines 188-197).
reset_fields(t) ==
    /\ progress_threads.kind = "running"
    /\ progress_threads.thread[t].pc = "locked"
    /\ progress_threads.thread[t].op = "process_document"
    /\ progress_threads' =
          [progress_threads EXCEPT
              !.progress.stage = "initialized",
              !.progress.current_step = 0,
              !.thread[t].pc = "callback"]

\* The replacement of the object that opens process_documents (lines
\* 349-358).
replace_progress(t) ==
    /\ progress_threads.kind = "running"
    /\ progress_threads.thread[t].pc = "locked"
    /\ progress_threads.thread[t].op = "process_documents"
    /\ progress_threads' =
          [progress_threads EXCEPT
              !.progress = [object |-> progress_threads.progress.object + 1,
                            stage |-> "initialized", current_step |-> 0],
              !.thread[t].pc = "callback"]

\* The callback inside the with block (lines 144-145, 198-199, 360-361) and
\* the end of the block: the lock is released whether the callback returns
\* or raises.
callback_release(t) ==
    /\ progress_threads.kind = "running"
    /\ progress_threads.thread[t].pc = "callback"
    /\ \E raises \in BOOLEAN :
          progress_threads' =
             [progress_threads EXCEPT !.lock = 0,
                                      !.thread[t].raised = raises,
                                      !.thread[t].pc = "done"]

ProgressStep(t) ==
    \/ lock_acquire(t)
    \/ read_current_step(t)
    \/ write_current_step(t)
    \/ reset_fields(t)
    \/ replace_progress(t)
    \/ callback_release(t)

InitLock ==
    /\ PipelineInit
    /\ t2c_input = NoCall
    /\ t2c_output = NoCall
    /\ UnitIdle
    /\ progress_threads \in ProgressThreads
    /\ vector_store = NoCall
    /\ embedding_tasks = NoCall

NextLock ==
    \E t \in Threads :
       /\ ProgressStep(t)
       /\ UNCHANGED << vector_store, embedding_tasks, t2c, unit, batch, shared,
                       main, pc, locals, published, progress >>

SpecLock == InitLock /\ [][NextLock]_vars

\* A step of thread t that changes the progress object or names another.
WritesProgress(t) ==
    /\ progress_threads'.progress # progress_threads.progress
    /\ progress_threads'.thread[t] # progress_threads.thread[t]

\* C24: every write to a field of the progress object, and every
\* replacement of the object, is done by a thread that holds progress_lock,
\* and concurrent _update_progress calls that increment the step raise it by
\* exactly one each.
ProgressWrittenUnderLock ==
    /\ [][\A t \in Threads : WritesProgress(t) => progress_threads.lock = t]_vars
    /\ []((/\ progress_threads.kind = "running"
           /\ \A t \in Threads :
                 /\ progress_threads.thread[t].op = "_update_progress"
                 /\ progress_threads.thread[t].pc = "done")
          => progress_threads.progress.current_step
                = progress_threads.initial_step + MaxThreads)

\* C24: two _update_progress calls have run at the same time and both have
\* finished.
ConcurrentIncrementsDone ==
    /\ progress_threads.kind = "running"
    /\ \A t \in Threads :
          /\ progress_threads.thread[t].op = "_update_progress"
          /\ progress_threads.thread[t].pc = "done"
    /\ progress_threads.progress.current_step
          = progress_threads.initial_step + MaxThreads

\* The error string of run i's own failed stage: what document_to_text or
\* text_to_chunks left in last_error for this document.
OwnStageError(i) ==
    IF failedStage[i] = "extract"
    THEN <<"Failed to extract content from", document_paths[i],
           "File not found", document_paths[i]>>
    ELSE <<"Failed to chunk text">>

\* C25: in a concurrent batch the error string in a failed document's result
\* is the error of that document's own failed stage, never another
\* document's and never one lost through the last_error fields the runs
\* share.
FailedDocumentHasOwnError ==
    \A i \in 1..N :
       (/\ concurrent
        /\ ~progress_callback
        /\ pc[i] = "returned"
        /\ failedStage[i] \in {"extract", "chunk"})
          => result[i].error = OwnStageError(i)

\* ------------------------------------------------- VectorStore collections

\* Most operations invoked on one VectorStore.
MaxStoreOps == 3

\* The collection names in use; a VectorStore is configured with the first.
CollectionNames == {"default", "project"}

\* The collection_name argument of store_embeddings and query_embeddings: a
\* name, or "None" when it is left out.
OptionalNames == CollectionNames \cup {"None"}

\* VectorStore.__init__ and _initialize_client: the configured collection is
\* fetched or created and becomes the active handle. records holds the ids
\* written to each collection the client has, last the latest operation and
\* the collection it read or wrote.
NewVectorStore ==
    [kind |-> "store", collection_name |-> "default", collection |-> "default",
     records |-> [c \in {"default"} |-> {}], ops |-> 0,
     last |-> [op |-> "__init__", collection_name |-> "None",
               touched |-> "None", returned |-> TRUE]]

\* The state of the store after create_collection (lines 138-173): the
\* handle names the collection, fetched or created; self.collection_name is
\* not assigned.
CreateCollection(vs, name) ==
    [vs EXCEPT !.collection = name,
               !.records = IF name \in DOMAIN vs.records THEN @
                           ELSE [c \in DOMAIN @ \cup {name} |->
                                    IF c = name THEN {} ELSE @[c]]]

\* use_collection (lines 227-257): FALSE for a collection the client does
\* not have, else handle and collection_name are switched together.
UseCollectionReturns(vs, name) == name \in DOMAIN vs.records

UseCollection(vs, name) ==
    IF UseCollectionReturns(vs, name)
    THEN [vs EXCEPT !.collection = name, !.collection_name = name]
    ELSE vs

\* The state after delete_collection (lines 201-225): the client raises for
\* a collection it does not have; the handle is reset when it named the
\* deleted collection.
DeleteCollection(vs, name) ==
    IF name \in DOMAIN vs.records
    THEN [vs EXCEPT !.records = [c \in DOMAIN @ \ {name} |-> @[c]],
                    !.collection = IF @ = name THEN "None" ELSE @]
    ELSE vs

\* 'Switch collection if specified' of store_embeddings (lines 314-319):
\* use_collection, and create_collection when that fails.
SwitchForStore(vs, name) ==
    IF name # "None" /\ name # vs.collection_name
    THEN IF UseCollectionReturns(vs, name) THEN UseCollection(vs, name)
         ELSE CreateCollection(vs, name)
    ELSE vs

\* 'Switch collection if specified' of query_embeddings (lines 454-457).
SwitchForQuery(vs, name) ==
    IF name # "None" /\ name # vs.collection_name
    THEN UseCollection(vs, name)
    ELSE vs

\* One more operation has been invoked.
Invoked(vs, op, name, touched, value) ==
    [vs EXCEPT !.ops = @ + 1,
               !.last = [op |-> op, collection_name |-> name,
                         touched |-> touched, returned |-> value]]

StoreReady ==
    /\ vector_store.kind = "store"
    /\ vector_store.ops < MaxStoreOps

create_collection ==
    /\ StoreReady
    /\ \E name \in CollectionNames :
          vector_store' = Invoked(CreateCollection(vector_store, name),
                                  "create_collection", name, "None", TRUE)
    /\ UNCHANGED << progress_threads, embedding_tasks, t2c, unit, batch, shared,
                    main, pc, locals, published, progress >>

use_collection ==
    /\ StoreReady
    /\ \E name \in CollectionNames :
          vector_store' = Invoked(UseCollection(vector_store, name),
                                  "use_collection", name, "None",
                                  UseCollectionReturns(vector_store, name))
    /\ UNCHANGED << progress_threads, embedding_tasks, t2c, unit, batch, shared,
                    main, pc, locals, published, progress >>

delete_collection ==
    /\ StoreReady
    /\ \E name \in CollectionNames :
          vector_store' = Invoked(DeleteCollection(vector_store, name),
                                  "delete_collection", name, "None",
                                  name \in DOMAIN vector_store.records)
    /\ UNCHANGED << progress_threads, embedding_tasks, t2c, unit, batch, shared,
                    main, pc, locals, published, progress >>

\* store_embeddings (lines 300-379) with one record, whose id is the number
\* of the operation: the record goes to the collection of the active handle.
store_to_collection ==
    /\ StoreReady
    /\ \E name \in OptionalNames :
          LET vs == SwitchForStore(vector_store, name) IN
          vector_store' =
             IF vs.collection = "None"
             THEN Invoked(vs, "store_embeddings", name, "None", FALSE)
             ELSE Invoked([vs EXCEPT !.records[vs.collection] =
                                        @ \cup {vs.ops + 1}],
                          "store_embeddings", name, vs.collection, TRUE)
    /\ UNCHANGED << progress_threads, embedding_tasks, t2c, unit, batch, shared,
                    main, pc, locals, published, progress >>

\* query_embeddings (lines 436-497): the query reads the collection of the
\* active handle; when the switch fails it returns [] and reads nothing.
query_embeddings ==
    /\ StoreReady
    /\ \E name \in OptionalNames :
          LET switched == name = "None" \/ name = vector_store.collection_name
                             \/ UseCollectionReturns(vector_store, name)
              vs == SwitchForQuery(vector_store, name) IN
          vector_store' =
             IF ~switched \/ vs.collection = "None"
             THEN Invoked(vs, "query_embeddings", name, "None", FALSE)
             ELSE Invoked(vs, "query_embeddings", name, vs.collection, TRUE)
    /\ UNCHANGED << progress_threads, embedding_tasks, t2c, unit, batch, shared,
                    main, pc, locals, published, progress >>

InitVectorStore ==
    /\ PipelineInit
    /\ t2c_input = NoCall
    /\ t2c_output = NoCall
    /\ UnitIdle
    /\ progress_threads = NoCall
    /\ vector_store = NewVectorStore
    /\ embedding_tasks = NoCall

NextVectorStore ==
    \/ create_collection
    \/ use_collection
    \/ delete_collection
    \/ store_to_collection
    \/ query_embeddings

SpecVectorStore == InitVectorStore /\ [][NextVectorStore]_vars

\* C26: whenever the store has an active collection handle, the handle's
\* name is self.collection_name, and a store or query invoked with
\* collection_name = C reads or writes collection C only.
ActiveCollectionIsNamed ==
    vector_store.kind = "store"
       => /\ vector_store.collection # "None"
             => vector_store.collection = vector_store.collection_name
          /\ (/\ vector_store.last.op \in {"store_embeddings", "query_embeddings"}
              /\ vector_store.last.collection_name # "None"
              /\ vector_store.last.touched # "None")
                => vector_store.last.touched = vector_store.last.collection_name


\* C29: storing one document is all-or-nothing: when process_document
\* returns success = false because storing failed, with stored_count 0, none
\* of that document's records is in the collection.
StoreIsAllOrNothing ==
    \A i \in 1..N :
       (/\ ~progress_callback
        /\ pc[i] = "returned"
        /\ ~result[i].success
        /\ failedStage[i] = "store")
          => /\ result[i].stored_count = 0
             /\ \A r \in collection : r.id[1] # i

\* Every stage of run i succeeded: its records are in the collection.
AllStagesSucceeded(i) ==
    /\ "vector_store" \in called[i]
    /\ Records(i, embedded[i]) \subseteq collection

\* C28: an exception raised by the progress callback never changes the
\* outcome: process_document and process_documents do not raise, and a run
\* whose stages all succeeded returns success = true as it does without a
\* callback.
CallbackNeverChangesOutcome ==
    /\ mpc # "raised"
    /\ \A i \in 1..N :
          /\ pc[i] # "raised"
          /\ (pc[i] = "returned" /\ AllStagesSucceeded(i)) => result[i].success

\* --------------------------------------------------------- embedding tasks

\* Most embedding tasks running at a time, and most files of one task.
MaxTasks == 2
MaxFiles == 2

TaskIds == 1..MaxTasks

\* The two modules that define run_embedding_process.
RouteModules == {"embed_routes", "embed_helpers"}

TerminalStatuses == {"completed", "completed_with_errors", "failed"}

\* trigger_embedding_route (embed_routes.py 160-200): an EmbeddingTask with
\* status 'pending' is put into app.embedding_tasks and a thread is started
\* for it.  entry is what app.embedding_tasks holds under the task id: the
\* EmbeddingTask object or a dict; task_status is the status field of the
\* EmbeddingTask object.
StartedTasks ==
    { [kind |-> "tasks",
       entry |-> [t \in TaskIds |-> [form |-> "object", status |-> "pending"]],
       thread |-> [t \in TaskIds |->
                      [module |-> m[t], files |-> n[t], pc |-> "started",
                       task_status |-> "pending", processed |-> 0,
                       successful |-> 0]]] :
        m \in [TaskIds -> RouteModules], n \in [TaskIds -> 1..MaxFiles] }

\* An assignment to task.status: it shows in app.embedding_tasks only while
\* the entry is still the EmbeddingTask object.
SetTaskStatus(tasks, t, status) ==
    [tasks EXCEPT !.thread[t].task_status = status,
                  !.entry[t].status = IF tasks.entry[t].form = "object"
                                      THEN status ELSE @]

\* The final status of embed_routes.py 121-129.
RoutesFinalStatus(successful, total) ==
    IF successful = 0 /\ total > 0 THEN "failed"
    ELSE IF successful < total THEN "completed_with_errors"
    ELSE "completed"

\* The final status of embed_helpers.py 136-142.
HelpersFinalStatus(success_count, failed_count) ==
    IF failed_count = 0 THEN "completed"
    ELSE IF success_count > 0 THEN "completed_with_errors"
    ELSE "failed"

\* task.status = "processing" (embed_routes.py 50, embed_helpers.py 67).
set_processing(t) ==
    /\ embedding_tasks.thread[t].pc = "started"
    /\ embedding_tasks' =
          [SetTaskStatus(embedding_tasks, t, "processing")
              EXCEPT !.thread[t].pc = "construct"]

\* The configuration and DocumentProcessor(...) (embed_routes.py 53-58,
\* embed_helpers.py 70-92): it is built, or something raises.
construct_processor(t) ==
    /\ embedding_tasks.thread[t].pc = "construct"
    /\ \E raises \in BOOLEAN :
          embedding_tasks' =
             [embedding_tasks EXCEPT
                 !.thread[t].pc = IF raises THEN "except" ELSE "init_entry"]

\* The entry of the task is replaced by a dict with status 'in_progress'
\* (embed_routes.py 90-98, embed_helpers.py 112-121).
init_entry(t) ==
    /\ embedding_tasks.thread[t].pc = "init_entry"
    /\ embedding_tasks' =
          [embedding_tasks EXCEPT
              !.entry[t] = [form |-> "dict", status |-> "in_progress"],
              !.thread[t].pc = "process"]

\* One turn of the loop of embed_routes.py 101-115: process_document
\* returns a result or raises.
process_file(t) ==
    /\ embedding_tasks.thread[t].pc = "process"
    /\ embedding_tasks.thread[t].module = "embed_routes"
    /\ embedding_tasks.thread[t].processed < embedding_tasks.thread[t].files
    /\ \/ \E success \in BOOLEAN :
             embedding_tasks' =
                [embedding_tasks EXCEPT
                    !.thread[t].processed = @ + 1,
                    !.thread[t].successful = @ + Inc(success)]
       \/ embedding_tasks' = [embedding_tasks EXCEPT !.thread[t].pc = "except"]

\* embed_routes.py 117-150: the final status goes into the entry.
finish_routes(t) ==
    /\ embedding_tasks.thread[t].pc = "process"
    /\ embedding_tasks.thread[t].module = "embed_routes"
    /\ embedding_tasks.thread[t].processed = embedding_tasks.thread[t].files
    /\ embedding_tasks' =
          [embedding_tasks EXCEPT
              !.entry[t].status =
                  RoutesFinalStatus(embedding_tasks.thread[t].successful,
                                    embedding_tasks.thread[t].files),
              !.thread[t].pc = "done"]

\* embed_helpers.py 125-164: process_documents returns its counts and the
\* final status goes into the entry, or process_documents raises.
process_all(t) ==
    /\ embedding_tasks.thread[t].pc = "process"
    /\ embedding_tasks.thread[t].module = "embed_helpers"
    /\ \/ \E success_count \in 0..embedding_tasks.thread[t].files :
             embedding_tasks' =
                [embedding_tasks EXCEPT
                    !.thread[t].processed = embedding_tasks.thread[t].files,
                    !.thread[t].successful = success_count,
                    !.entry[t].status =
                        HelpersFinalStatus(success_count,
                            embedding_tasks.thread[t].files - success_count),
                    !.thread[t].pc = "done"]
       \/ embedding_tasks' = [embedding_tasks EXCEPT !.thread[t].pc = "except"]

\* The handler of run_embedding_process (embed_routes.py 152-158,
\* embed_helpers.py 166-172): only fields of the task object are assigned.
handle_exception(t) ==
    /\ embedding_tasks.thread[t].pc = "except"
    /\ embedding_tasks' =
          [SetTaskStatus(embedding_tasks, t, "failed")
              EXCEPT !.thread[t].pc = "done"]

run_embedding_process(t) ==
    /\ embedding_tasks.kind = "tasks"
    /\ \/ set_processing(t)
       \/ construct_processor(t)
       \/ init_entry(t)
       \/ process_file(t)
       \/ finish_routes(t)
       \/ process_all(t)
       \/ handle_exception(t)
    /\ UNCHANGED << progress_threads, vector_store, t2c, unit, batch, shared,
                    main, pc, locals, published, progress >>

InitTasks ==
    /\ PipelineInit
    /\ t2c_input = NoCall
    /\ t2c_output = NoCall
    /\ UnitIdle
    /\ progress_threads = NoCall
    /\ vector_store = NoCall
    /\ embedding_tasks \in StartedTasks

NextTasks == \E t \in TaskIds : run_embedding_process(t)

SpecTasks == InitTasks /\ [][NextTasks]_vars

\* Every started thread keeps running until run_embedding_process returns.
SpecTasksFair ==
    SpecTasks /\ \A t \in TaskIds : WF_vars(run_embedding_process(t))

\* C30: every embedding task that was started eventually has a terminal
\* status (completed, completed_with_errors or failed) in
\* app.embedding_tasks, also when processing raises.
EveryTaskTerminates ==
    \A t \in TaskIds :
       <>(embedding_tasks.entry[t].status \in TerminalStatuses)

====
